---- MODULE Spec2Model ----
(***************************************************************************)
(* Resumable (TUS) upload state machine and post-processing worker of      *)
(* fbc_uploader: backend/app/routers/uploads.py, backend/app/utils.py and  *)
(* backend/app/postprocessing.py.                                          *)
(*                                                                         *)
(* Modelling decisions                                                     *)
(*  - A MIME type "major/minor" is the pair <<major, minor>>; a pattern    *)
(*    "major/*" is the pair <<major, "*">>.                                *)
(*  - A file is its length and the kind of its leading bytes (the magic    *)
(*    number libmagic reads).  Bytes are appended, never rewritten, so the *)
(*    kind is fixed by the first byte that reaches an empty file.          *)
(*  - Every request handler owns a database session.  The record it loaded *)
(*    is kept in the handler (rec); a commit writes back the columns the   *)
(*    handler changed, by primary key, as the SQLAlchemy unit of work does.*)
(*    Handlers are split at their suspension points (awaits) so that       *)
(*    requests on the same upload can overlap.                             *)
(*  - Public ids (secrets.token_urlsafe) and primary keys are never        *)
(*    reused.  Database and filesystem calls do not fail on their own.     *)
(***************************************************************************)
EXTENDS Integers, Sequences, FiniteSets, TLC

\* ---------------------------------------------------------------- bounds
MaxUploads  == 1      \* uploads of a behaviour in which chunks are appended
MaxIds      == 2      \* public ids the server can hand out
MaxLen      == 2      \* largest declared length (token.max_size_bytes)
MaxBody     == 2      \* largest request body, in bytes
MaxFile     == 3      \* largest file the disk holds, in bytes
MaxClock    == 2      \* distinct values of datetime.now(); later ones coincide
NumHandlers == 2      \* request handlers that can be in flight together
MaxQueue    == 2      \* ids waiting in the processing queue
MaxData     == 5      \* longest MP4 file handed to the faststart check, in bytes

\* ------------------------------------------------------------- constants
Null     == -1        \* Python None for integer columns
NoId     == 0
Ids      == 1..MaxUploads       \* ids of the uploads whose chunks are followed
PublicIds == 1..MaxIds          \* every id a request can name
Handlers == 1..NumHandlers

HTTP_204 == 204
HTTP_200 == 200
HTTP_201 == 201
HTTP_400 == 400
HTTP_403 == 403
HTTP_404 == 404
HTTP_409 == 409
HTTP_413 == 413
HTTP_415 == 415
HTTP_422 == 422
HTTP_500 == 500

\* settings.max_chunk_bytes, scaled to the model's body sizes
max_chunk_bytes == 1

\* the scan_bytes default of utils._needs_faststart (8 MiB), scaled to MaxData
scan_bytes == 4

NoType    == <<"none", "none">>
VideoMp4  == <<"video", "mp4">>
AudioMpeg == <<"audio", "mpeg">>
TextPlain == <<"text", "plain">>
Empty     == <<"inode", "x-empty">>

\* content types a client declares at initiation (None, or a type)
Declared  == {TextPlain, AudioMpeg}

\* leading bytes of a body: the magic number of a video, an audio or a text
Bytes == {"V", "A", "T"}

\* allow-lists a token is created with (None, or a list of patterns)
AllowLists == { <<>>, << <<"video", "*">>, TextPlain >> }

\* ---------------------------------------------------------------- utils
\* utils.is_multimedia: mimetype.startswith(("video/", "audio/"))
\* (is_multimedia_text: the same with "text/" among the prefixes)
is_multimedia_text(mimetype) == mimetype[1] \in {"video", "audio", "text"}

is_multimedia(mimetype) == mimetype[1] \in {"video", "audio"}

\* one iteration of the loop of utils.mime_allowed
pattern_matches(filetype, pattern) ==
    IF pattern[2] = "*"
    THEN filetype[1] = pattern[1]
    ELSE filetype = pattern

RECURSIVE any_pattern(_, _, _)
any_pattern(filetype, allowed, i) ==
    IF i > Len(allowed) THEN FALSE
    ELSE IF pattern_matches(filetype, allowed[i]) THEN TRUE
    ELSE any_pattern(filetype, allowed, i + 1)

\* utils.mime_allowed
mime_allowed(filetype, allowed) ==
    IF allowed = <<>> \/ filetype = NoType THEN TRUE
    ELSE any_pattern(filetype, allowed, 1)

\* the bytes of an MP4 file: "m", "v" and "d" spell the markers, "x" is any
\* other byte.  The four-byte markers b"moov" and b"mdat", which share their
\* first byte, are the two-byte sequences below.
Mp4Bytes == {"m", "v", "d", "x"}
moov_marker == <<"m", "v">>
mdat_marker == <<"m", "d">>

\* bytes.find(sub): the lowest index (from 0) at which sub starts, -1 when it
\* starts nowhere; i is the index tried next
RECURSIVE find_from(_, _, _)
find_from(data, sub, i) ==
    IF i + Len(sub) > Len(data) THEN -1
    ELSE IF SubSeq(data, i + 1, i + Len(sub)) = sub THEN i
    ELSE find_from(data, sub, i + 1)

find(data, sub) == find_from(data, sub, 0)

\* f.read(n): the first n bytes of the file, all of it when it is shorter
read(data, n) == SubSeq(data, 1, IF Len(data) < n THEN Len(data) ELSE n)

\* utils._needs_faststart on a file holding `data`
\* (needs_faststart_mdat_first: the same with the two tests in the other order)
needs_faststart_mdat_first(data, n) ==
    LET moov == find(read(data, n), moov_marker)
        mdat == find(read(data, n), mdat_marker)
    IN  IF mdat = -1 THEN FALSE
        ELSE IF moov = -1 THEN TRUE
        ELSE moov > mdat

needs_faststart(data, n) ==
    LET moov == find(read(data, n), moov_marker)
        mdat == find(read(data, n), mdat_marker)
    IN  IF moov = -1 THEN TRUE
        ELSE IF mdat = -1 THEN FALSE
        ELSE moov > mdat

\* ---------------------------------------------------------------- files
NoFile == [size |-> Null, head |-> "none"]

exists(f) == f.size >= 0

\* aiofiles.open(path, "ab") followed by n bytes of f.write
\* (append_truncate: the same with the file opened "wb")
append_truncate(f, n, b) ==
    [size |-> n, head |-> IF n > 0 THEN b ELSE "none"]

append(f, n, b) ==
    LET old == IF exists(f) THEN f.size ELSE 0
    IN  [size |-> old + n,
         head |-> IF old = 0 /\ n > 0 THEN b ELSE IF old = 0 THEN "none" ELSE f.head]

\* utils.detect_mimetype on an existing file (libmagic reads the leading bytes)
detect_mimetype(f) ==
    CASE f.head = "V" -> VideoMp4
      [] f.head = "A" -> AudioMpeg
      [] f.head = "T" -> TextPlain
      [] OTHER        -> Empty

\* -------------------------------------------------------------- records
NoRecord == [upload_length |-> Null, upload_offset |-> Null, status |-> "none",
             mimetype |-> NoType, completed_at |-> Null,
             ffprobe |-> FALSE, error |-> "none"]

\* a response: status code, Upload-Offset and Upload-Length headers (Null: absent)
NoResp == [op |-> "none", id |-> NoId, code |-> 0, offset |-> Null, length |-> Null]

\* history of an upload id, kept beside the program state to state properties
\* of whole call sequences:
\*   sent       bytes delivered so far by chunk-append calls that were all
\*              answered 204 and each claimed the bytes delivered before it
\*              (Null once a call of the sequence was refused)
\*   parts      number of those calls that delivered at least one byte
\*   cut        a body was cut short after at least one byte, before the
\*              declared length was reached, and the call was answered 204
\*   direct     a final chunk arrived whose sniffed type is permitted and is
\*              neither audio nor video
\*   rejected   a final chunk arrived whose sniffed type is not permitted
\*   processed  the worker finished an item with this id
\*   cancelled  a cancel_upload call on the id succeeded
\*   returned   what the last process_upload call on the id returned ("none":
\*              no call ended yet, "raised": it ended with an exception)
\*   raised     the steps that raised an exception while the worker processed
\*              the id the last time: "faststart" (ensure_faststart_mp4),
\*              "probe" (extract_ffprobe_metadata), "commit" (session.commit)
\*   abandoned  the worker was cancelled while it processed the id
\*   enq        k when the id was the k-th id handed to queue.enqueue (0: never)
\*   start      k when the id was the k-th id the worker took from the queue
\*   waiting    the id was waiting in the queue when stop_worker was called
NoHist == [sent |-> Null, parts |-> 0, cut |-> FALSE, direct |-> FALSE, rejected |-> FALSE,
           processed |-> FALSE, cancelled |-> FALSE, returned |-> "none", raised |-> {},
           abandoned |-> FALSE, enq |-> 0, start |-> 0, waiting |-> FALSE]

\* a request in flight: where it is, the record and the uploads_used its
\* session loaded (Null: no token row loaded), its body
IdleHandler == [pc |-> "idle", id |-> NoId, rec |-> NoRecord,
                body |-> 0, written |-> 0, cut |-> FALSE, used |-> Null]

VARIABLES
    token,        \* the UploadToken row the uploads belong to
    uploads,      \* uploads table: public id -> row (NoRecord: no such row)
    files,        \* file at each record's storage_path (NoFile: missing)
    next_id,      \* number of public ids handed out so far
    clock,        \* datetime.now(UTC), advanced when a value is stored
    handlers,     \* tus_patch requests in flight
    has_queue,    \* app.state.processing_queue is set
    queue,        \* ProcessingQueue._queue
    worker,       \* ProcessingQueue._worker_task and the item it holds
    resp,         \* the last HTTP response sent
    hist,         \* history of each id (see NoHist)
    scan          \* the MP4 bytes handed to utils._needs_faststart and its answer

vars == <<token, uploads, files, next_id, clock, handlers, has_queue, queue, worker, resp,
          hist, scan>>

\* ProcessingQueue._worker_task ("none": None, "running", "cancelling": cancel()
\* was called and the task has not ended, "done"), where its loop is and the
\* item it holds; orphans are the items held by loops that still run although
\* _worker_task names another task (NoId: waiting in queue.get); tmp is the
\* temporary file of ensure_faststart_mp4 beside the file of the item
IdleWorker == [task |-> "none", pc |-> "get", id |-> NoId, rec |-> NoRecord,
               orphans |-> <<>>, tmp |-> NoFile]

\* datetime.now(UTC) of the step being taken
now == IF clock < MaxClock THEN clock + 1 ELSE MaxClock

\* a call of utils._needs_faststart: the bytes of the file, the answer ("none":
\* not called yet), and, for a file whose markers were exchanged after a first
\* call, the answer of that call
NoScan == [data |-> <<>>, answer |-> "none", before |-> "none"]

\* the files of at most n bytes
RECURSIVE Mp4Files(_)
Mp4Files(n) ==
    IF n = 0 THEN {<<>>}
    ELSE Mp4Files(n - 1) \cup
         {Append(d, b) : d \in {e \in Mp4Files(n - 1) : Len(e) = n - 1}, b \in Mp4Bytes}

Init ==
    /\ scan = NoScan
    /\ token \in {[allowed_mime |-> a, disabled |-> FALSE, expired |-> FALSE,
                   max_uploads |-> MaxIds, uploads_used |-> 0,
                   max_size_bytes |-> MaxLen] : a \in AllowLists}
    /\ uploads = [u \in PublicIds |-> NoRecord]
    /\ files = [u \in PublicIds |-> NoFile]
    /\ next_id = 0
    /\ clock = 0
    /\ handlers = [h \in Handlers |-> IdleHandler]
    /\ has_queue \in BOOLEAN
    /\ queue = <<>>
    /\ worker = [IdleWorker EXCEPT !.task = IF has_queue THEN "running" ELSE "none"]
    /\ resp = NoResp
    /\ hist = [u \in PublicIds |-> NoHist]

\* models.UploadToken.remaining_uploads: max(0, max_uploads - uploads_used)
remaining_uploads ==
    IF token.max_uploads - token.uploads_used > 0
    THEN token.max_uploads - token.uploads_used
    ELSE 0

\* uploads._ensure_token: the status it raises, 0 when the token passes
\* (ensure_token_enabled: the same without the test of token.disabled)
ensure_token_enabled(check_remaining) ==
    IF token.expired THEN HTTP_403
    ELSE IF check_remaining /\ remaining_uploads <= 0 THEN HTTP_403
    ELSE 0

ensure_token(check_remaining) ==
    IF token.expired THEN HTTP_403
    ELSE IF token.disabled THEN HTTP_403
    ELSE IF check_remaining /\ remaining_uploads <= 0 THEN HTTP_403
    ELSE 0

\* the status code of a response and its Upload-Offset header (Null: not sent)
Respond(op, u, code, off, len) ==
    resp' = [op |-> op, id |-> u, code |-> code, offset |-> off, length |-> len]

\* uploads.initiate_upload
\* (initiate_upload_late_check: the same with the size compared after the
\* record was inserted and the slot taken)
initiate_upload_late_check(size_bytes, filetype) ==
    /\ next_id < MaxIds
    /\ LET u == next_id + 1 IN
       IF ensure_token(TRUE) # 0 THEN
            /\ Respond("initiate", NoId, ensure_token(TRUE), Null, Null)
            /\ UNCHANGED <<token, uploads, next_id, hist>>
       ELSE IF ~mime_allowed(filetype, token.allowed_mime) THEN
            /\ Respond("initiate", NoId, HTTP_415, Null, Null)
            /\ UNCHANGED <<token, uploads, next_id, hist>>
       ELSE
            /\ uploads' = [uploads EXCEPT ![u] =
                   [upload_length |-> size_bytes, upload_offset |-> 0,
                    status |-> "initiated", mimetype |-> filetype,
                    completed_at |-> Null, ffprobe |-> FALSE, error |-> "none"]]
            /\ token' = [token EXCEPT !.uploads_used = @ + 1]
            /\ next_id' = u
            /\ IF size_bytes # Null /\ size_bytes > token.max_size_bytes
               THEN Respond("initiate", NoId, HTTP_413, Null, Null)
               ELSE Respond("initiate", u, HTTP_201, Null, Null)
            /\ hist' = [hist EXCEPT ![u] = [NoHist EXCEPT !.sent = 0]]
    /\ UNCHANGED <<files, clock, handlers, has_queue, queue, worker, scan>>

initiate_upload(size_bytes, filetype) ==
    /\ next_id < MaxIds
    /\ LET u == next_id + 1 IN
       IF ensure_token(TRUE) # 0 THEN
            /\ Respond("initiate", NoId, ensure_token(TRUE), Null, Null)
            /\ UNCHANGED <<token, uploads, next_id, hist>>
       ELSE IF size_bytes # Null /\ size_bytes > token.max_size_bytes THEN
            /\ Respond("initiate", NoId, HTTP_413, Null, Null)
            /\ UNCHANGED <<token, uploads, next_id, hist>>
       ELSE IF ~mime_allowed(filetype, token.allowed_mime) THEN
            /\ Respond("initiate", NoId, HTTP_415, Null, Null)
            /\ UNCHANGED <<token, uploads, next_id, hist>>
       ELSE
            /\ uploads' = [uploads EXCEPT ![u] =
                   [upload_length |-> size_bytes, upload_offset |-> 0,
                    status |-> "initiated", mimetype |-> filetype,
                    completed_at |-> Null, ffprobe |-> FALSE, error |-> "none"]]
            /\ token' = [token EXCEPT !.uploads_used = @ + 1]
            /\ next_id' = u
            /\ Respond("initiate", u, HTTP_201, Null, Null)
            /\ hist' = [hist EXCEPT ![u] = [NoHist EXCEPT !.sent = 0]]
    /\ UNCHANGED <<files, clock, handlers, has_queue, queue, worker, scan>>

\* uploads.initiate_upload, lines 121-134, of a request that overlaps with
\* others: its session loads the token row and checks it and the payload
initiate_upload_begin(h, size_bytes, filetype) ==
    /\ next_id + Cardinality({g \in Handlers : handlers[g].pc = "insert"}) < MaxIds
    /\ handlers[h].pc = "idle"
    /\ \A g \in Handlers : g < h => handlers[g].pc # "idle"
    /\ IF ensure_token(TRUE) # 0 THEN
            /\ Respond("initiate", NoId, ensure_token(TRUE), Null, Null)
            /\ UNCHANGED handlers
       ELSE IF size_bytes # Null /\ size_bytes > token.max_size_bytes THEN
            /\ Respond("initiate", NoId, HTTP_413, Null, Null)
            /\ UNCHANGED handlers
       ELSE IF ~mime_allowed(filetype, token.allowed_mime) THEN
            /\ Respond("initiate", NoId, HTTP_415, Null, Null)
            /\ UNCHANGED handlers
       ELSE
            /\ handlers' = [handlers EXCEPT ![h] =
                   [IdleHandler EXCEPT
                       !.pc = "insert",
                       !.used = token.uploads_used,
                       !.rec = [upload_length |-> size_bytes, upload_offset |-> 0,
                                status |-> "initiated", mimetype |-> filetype,
                                completed_at |-> Null, ffprobe |-> FALSE,
                                error |-> "none"]]]
            /\ UNCHANGED resp
    /\ UNCHANGED <<token, uploads, files, next_id, clock, has_queue, queue, worker, hist, scan>>

\* uploads.initiate_upload, lines 140-173, of an overlapping request: the
\* record is inserted and the session writes the uploads_used it computed from
\* the value it loaded
initiate_upload_commit(h) ==
    LET u == next_id + 1 IN
    /\ handlers[h].pc = "insert"
    /\ uploads' = [uploads EXCEPT ![u] = handlers[h].rec]
    /\ token' = [token EXCEPT !.uploads_used = handlers[h].used + 1]
    /\ next_id' = u
    /\ Respond("initiate", u, HTTP_201, Null, Null)
    /\ hist' = [hist EXCEPT ![u] = [NoHist EXCEPT !.sent = 0]]
    /\ handlers' = [handlers EXCEPT ![h] = IdleHandler]
    /\ UNCHANGED <<files, clock, has_queue, queue, worker, scan>>

\* uploads.tus_head
tus_head(u) ==
    /\ IF uploads[u] = NoRecord THEN Respond("head", u, HTTP_404, Null, Null)
       ELSE IF ensure_token(FALSE) # 0 THEN Respond("head", u, ensure_token(FALSE), Null, Null)
       ELSE IF uploads[u].upload_length = Null THEN Respond("head", u, HTTP_409, Null, Null)
       ELSE Respond("head", u, HTTP_200, uploads[u].upload_offset, uploads[u].upload_length)
    /\ UNCHANGED <<token, uploads, files, next_id, clock, handlers, has_queue, queue, worker, hist, scan>>

\* ------------------------------------------------------------ tus_patch
\* The columns a session's flush writes: those whose value differs from the
\* value the session loaded (rec); the others keep the row's current value.
flush(row, loaded, changed) ==
    [f \in DOMAIN row |-> IF changed[f] # loaded[f] THEN changed[f] ELSE row[f]]

\* uploads.tus_patch, lines 233-252: the precondition checks.  The result is
\* the status the handler answers with, 0 when it goes on to stream the body.
\* (patch_precheck_no_offset: the same without the Upload-Offset comparison;
\* patch_precheck_no_completed: the same without the completed short cut.)
patch_precheck_no_offset(u, upload_offset, content_type_ok, content_length) ==
    IF ~content_type_ok THEN HTTP_415
    ELSE IF content_length # Null /\ content_length # 0 /\ content_length > max_chunk_bytes
         THEN HTTP_413
    ELSE IF uploads[u] = NoRecord THEN HTTP_404
    ELSE IF ensure_token(FALSE) # 0 THEN ensure_token(FALSE)
    ELSE IF uploads[u].upload_length = Null THEN HTTP_409
    ELSE IF uploads[u].status = "completed" THEN HTTP_204
    ELSE 0

patch_precheck_no_completed(u, upload_offset, content_type_ok, content_length) ==
    IF ~content_type_ok THEN HTTP_415
    ELSE IF content_length # Null /\ content_length # 0 /\ content_length > max_chunk_bytes
         THEN HTTP_413
    ELSE IF uploads[u] = NoRecord THEN HTTP_404
    ELSE IF ensure_token(FALSE) # 0 THEN ensure_token(FALSE)
    ELSE IF uploads[u].upload_length = Null THEN HTTP_409
    ELSE IF uploads[u].upload_offset # upload_offset THEN HTTP_409
    ELSE 0

\* (patch_precheck_lookup_first: the same with the record looked up before
\* the headers are checked)
patch_precheck_lookup_first(u, upload_offset, content_type_ok, content_length) ==
    IF uploads[u] = NoRecord THEN HTTP_404
    ELSE IF ~content_type_ok THEN HTTP_415
    ELSE IF content_length # Null /\ content_length # 0 /\ content_length > max_chunk_bytes
         THEN HTTP_413
    ELSE IF ensure_token(FALSE) # 0 THEN ensure_token(FALSE)
    ELSE IF uploads[u].upload_length = Null THEN HTTP_409
    ELSE IF uploads[u].upload_offset # upload_offset THEN HTTP_409
    ELSE IF uploads[u].status = "completed" THEN HTTP_204
    ELSE 0

patch_precheck(u, upload_offset, content_type_ok, content_length) ==
    IF ~content_type_ok THEN HTTP_415
    ELSE IF content_length # Null /\ content_length # 0 /\ content_length > max_chunk_bytes
         THEN HTTP_413
    ELSE IF uploads[u] = NoRecord THEN HTTP_404
    ELSE IF ensure_token(FALSE) # 0 THEN ensure_token(FALSE)
    ELSE IF uploads[u].upload_length = Null THEN HTTP_409
    ELSE IF uploads[u].upload_offset # upload_offset THEN HTTP_409
    ELSE IF uploads[u].status = "completed" THEN HTTP_204
    ELSE 0

\* what the end of a chunk-append call leaves behind: the response (status,
\* Upload-Offset), the row and the file, whether the id was handed to
\* queue.enqueue and whether datetime.now() was stored
Outcome(code, header, row, file, enq, stamp) ==
    [code |-> code, offset |-> header, row |-> row, file |-> file,
     enqueue |-> enq, stamp |-> stamp]

\* uploads.tus_patch, lines 271-286: the type sniffed from the file is not one
\* the token's allow-list permits
\* (sniff_rejected_declared: the same with the declared type taken for it)
sniff_rejected_declared(rec, file) ==
    ~mime_allowed(rec.mimetype, token.allowed_mime)

sniff_rejected(rec, file) ==
    ~mime_allowed(detect_mimetype(file), token.allowed_mime)

\* uploads.tus_patch, lines 266-325: offset update, completion and commit, for a
\* handler whose session loaded rec and whose body put n bytes in the file;
\* row and file are the table row and the file at that moment
\* (patch_commit_keep_type: the same with the declared type left in the record)
patch_commit_keep_type(rec, row, file, n) ==
    LET offset == rec.upload_offset + n
        actual == detect_mimetype(file)
    IN
    IF n = 0 THEN
        Outcome(HTTP_204, rec.upload_offset, row, file, FALSE, FALSE)
    ELSE IF offset > rec.upload_length THEN
        Outcome(HTTP_413, Null, row, file, FALSE, FALSE)
    ELSE IF offset = rec.upload_length THEN
        IF ~exists(file) THEN
            Outcome(HTTP_500, Null, row, file, FALSE, FALSE)
        ELSE IF sniff_rejected(rec, file) THEN
            Outcome(HTTP_415, Null, NoRecord, NoFile, FALSE, FALSE)
        ELSE IF row = NoRecord THEN
            Outcome(HTTP_500, Null, row, file, FALSE, FALSE)
        ELSE IF is_multimedia(actual) THEN
            Outcome(HTTP_204, offset,
                    flush(row, rec, [rec EXCEPT !.upload_offset = offset,
                                                !.status = "postprocessing"]),
                    file, TRUE, FALSE)
        ELSE
            Outcome(HTTP_204, offset,
                    flush(row, rec, [rec EXCEPT !.upload_offset = offset,
                                                !.status = "completed",
                                                !.completed_at = now]),
                    file, FALSE, TRUE)
    ELSE IF row = NoRecord THEN
        Outcome(HTTP_500, Null, row, file, FALSE, FALSE)
    ELSE
        Outcome(HTTP_204, offset,
                flush(row, rec, [rec EXCEPT !.upload_offset = offset,
                                            !.status = "in_progress"]),
                file, FALSE, FALSE)

patch_commit(rec, row, file, n) ==
    LET offset == rec.upload_offset + n
        actual == detect_mimetype(file)
    IN
    IF n = 0 THEN
        Outcome(HTTP_204, rec.upload_offset, row, file, FALSE, FALSE)
    ELSE IF offset > rec.upload_length THEN
        Outcome(HTTP_413, Null, row, file, FALSE, FALSE)
    ELSE IF offset = rec.upload_length THEN
        IF ~exists(file) THEN
            Outcome(HTTP_500, Null, row, file, FALSE, FALSE)
        ELSE IF sniff_rejected(rec, file) THEN
            Outcome(HTTP_415, Null, NoRecord, NoFile, FALSE, FALSE)
        ELSE IF row = NoRecord THEN
            Outcome(HTTP_500, Null, row, file, FALSE, FALSE)
        ELSE IF is_multimedia(actual) THEN
            Outcome(HTTP_204, offset,
                    flush(row, rec, [rec EXCEPT !.upload_offset = offset,
                                                !.mimetype = actual,
                                                !.status = "postprocessing"]),
                    file, TRUE, FALSE)
        ELSE
            Outcome(HTTP_204, offset,
                    flush(row, rec, [rec EXCEPT !.upload_offset = offset,
                                                !.mimetype = actual,
                                                !.status = "completed",
                                                !.completed_at = now]),
                    file, FALSE, TRUE)
    ELSE IF row = NoRecord THEN
        Outcome(HTTP_500, Null, row, file, FALSE, FALSE)
    ELSE
        Outcome(HTTP_204, offset,
                flush(row, rec, [rec EXCEPT !.upload_offset = offset,
                                            !.status = "in_progress"]),
                file, FALSE, FALSE)

\* ProcessingQueue.enqueue, called when the request has a queue
\* (enqueue_front: the same with the id put at the head of the queue)
enqueue_front(u) ==
    IF has_queue THEN Len(queue) < MaxQueue /\ queue' = <<u>> \o queue
    ELSE UNCHANGED queue

enqueue(u) ==
    IF has_queue THEN Len(queue) < MaxQueue /\ queue' = Append(queue, u)
    ELSE UNCHANGED queue

\* the state a chunk-append call on u leaves, and its response (a 204 carries
\* the Upload-Length header of the record the handler loaded)
patch_apply(u, rec, out) ==
    /\ uploads' = [uploads EXCEPT ![u] = out.row]
    /\ files' = [files EXCEPT ![u] = out.file]
    /\ clock' = IF out.stamp THEN now ELSE clock
    /\ IF out.enqueue THEN enqueue(u) ELSE UNCHANGED queue
    /\ Respond("patch", u, out.code, out.offset,
               IF out.code = HTTP_204 THEN rec.upload_length ELSE Null)

\* the answer of a chunk-append call that stops at a precondition check
patch_refuse(u, code) ==
    /\ Respond("patch", u, code,
               IF code = HTTP_204 THEN uploads[u].upload_offset ELSE Null, Null)
    /\ hist' = [hist EXCEPT ![u].sent = Null]

\* the number of ids handed to queue.enqueue, and taken by the worker, so far
Enqueues == Cardinality({v \in PublicIds : hist[v].enq > 0})
Starts   == Cardinality({v \in PublicIds : hist[v].start > 0})

\* history after a chunk-append call that went past the precondition checks:
\* its session loaded rec, n bytes reached the file (now `file`), cut tells
\* whether the body was cut short, out is what the call left
note_patch(h, rec, cut, n, file, out) ==
    LET final   == n > 0 /\ rec.upload_offset + n = rec.upload_length
        sniffed == detect_mimetype(file)
        allowed == mime_allowed(sniffed, token.allowed_mime)
        valid   == h.sent # Null /\ h.sent = rec.upload_offset /\ out.code = HTTP_204
    IN  [h EXCEPT
           !.sent     = IF valid THEN h.sent + n ELSE Null,
           !.parts    = IF valid /\ n > 0 THEN h.parts + 1 ELSE h.parts,
           !.cut      = h.cut \/ (cut /\ n > 0 /\ out.code = HTTP_204
                                      /\ rec.upload_offset + n < rec.upload_length),
           !.direct   = h.direct \/ (final /\ allowed /\ sniffed[1] \notin {"video", "audio"}),
           !.rejected = h.rejected \/ (final /\ ~allowed),
           !.enq      = IF out.enqueue /\ has_queue THEN Enqueues + 1 ELSE h.enq]

\* first bytes a body of n bytes can start with
Leading(n) == IF n = 0 THEN {"none"} ELSE Bytes

\* uploads.tus_patch, lines 254-325, as one step: n bytes of a body of `body`
\* bytes reach the file (n below body is a ClientDisconnect), b is the first
\* byte of the body; then the offset is updated and committed
\* (tus_patch_body_abort: the same with a ClientDisconnect answered as a failed
\* request, nothing committed)
tus_patch_body_abort(u, body, n, b) ==
    LET file == append(files[u], n, b)
        out  == patch_commit(uploads[u], uploads[u], file, n)
    IN
    /\ n \in 0..body /\ b \in Leading(n)
    /\ file.size <= MaxFile
    /\ IF n < body
       THEN patch_apply(u, uploads[u],
                        Outcome(HTTP_500, Null, uploads[u], file, FALSE, FALSE))
       ELSE patch_apply(u, uploads[u], out)
    /\ hist' = [hist EXCEPT ![u] = note_patch(@, uploads[u], n < body, n, file, out)]

tus_patch_body(u, body, n, b) ==
    LET file == append(files[u], n, b)
        out  == patch_commit(uploads[u], uploads[u], file, n)
    IN
    /\ n \in 0..body /\ b \in Leading(n)
    /\ file.size <= MaxFile
    /\ patch_apply(u, uploads[u], out)
    /\ hist' = [hist EXCEPT ![u] = note_patch(@, uploads[u], n < body, n, file, out)]

\* uploads.tus_patch as one step (no other request or worker step in between):
\* a request with an Upload-Offset header, a Content-Type, an optional
\* Content-Length and a body of `body` bytes
tus_patch(u, upload_offset, content_type_ok, content_length, body) ==
    LET code == patch_precheck(u, upload_offset, content_type_ok, content_length) IN
    /\ \A h \in Handlers : handlers[h].pc = "idle"
    /\ IF code # 0 THEN
            /\ patch_refuse(u, code)
            /\ UNCHANGED <<uploads, files, clock, queue>>
       ELSE
            \E n \in 0..body : \E b \in Leading(n) : tus_patch_body(u, body, n, b)
    /\ UNCHANGED <<token, next_id, handlers, has_queue, worker, scan>>

\* uploads.tus_patch, first part: the precondition checks of a request that
\* overlaps with others; its session keeps the record it loaded
tus_patch_begin(h, u, upload_offset, content_type_ok, content_length, body) ==
    LET code == patch_precheck(u, upload_offset, content_type_ok, content_length) IN
    /\ handlers[h].pc = "idle"
    /\ \A g \in Handlers : g < h => handlers[g].pc # "idle"
    /\ IF code # 0 THEN
            /\ patch_refuse(u, code)
            /\ UNCHANGED handlers
       ELSE
            /\ handlers' = [handlers EXCEPT ![h] =
                   [pc |-> "stream", id |-> u, rec |-> uploads[u],
                    body |-> body, written |-> 0, cut |-> FALSE, used |-> Null]]
            /\ UNCHANGED <<resp, hist>>
    /\ UNCHANGED <<token, uploads, files, next_id, clock, has_queue, queue, worker, scan>>

\* uploads.tus_patch, lines 254-264, of an overlapping request: the file is
\* opened for append and n bytes of the body, starting with byte b, reach it
\* (tus_patch_stream_buffered: the same with the bytes counted and not yet on
\* the disk when the handler goes on)
tus_patch_stream_buffered(h, n, b) ==
    /\ handlers[h].pc = "stream"
    /\ n \in 0..handlers[h].body
    /\ b \in Leading(n)
    /\ handlers' = [handlers EXCEPT ![h] =
           [@ EXCEPT !.pc = "finish", !.written = n, !.cut = (n < handlers[h].body),
                     !.body = 0]]
    /\ UNCHANGED <<token, uploads, files, next_id, clock, has_queue, queue, worker, resp, hist, scan>>

\* (tus_patch_stream_shared: the same with every upload of the token stored
\* at one path)
tus_patch_stream_shared(h, n, b) ==
    /\ handlers[h].pc = "stream"
    /\ n \in 0..handlers[h].body
    /\ b \in Leading(n)
    /\ \A u \in PublicIds : append(files[u], n, b).size <= MaxFile
    /\ files' = [u \in PublicIds |->
                    IF uploads[u] # NoRecord THEN append(files[u], n, b) ELSE files[u]]
    /\ handlers' = [handlers EXCEPT ![h] =
           [@ EXCEPT !.pc = "finish", !.written = n, !.cut = (n < handlers[h].body),
                     !.body = 0]]
    /\ UNCHANGED <<token, uploads, next_id, clock, has_queue, queue, worker, resp, hist, scan>>

tus_patch_stream(h, n, b) ==
    /\ handlers[h].pc = "stream"
    /\ n \in 0..handlers[h].body
    /\ b \in Leading(n)
    /\ append(files[handlers[h].id], n, b).size <= MaxFile
    /\ files' = [files EXCEPT ![handlers[h].id] = append(@, n, b)]
    /\ handlers' = [handlers EXCEPT ![h] =
           [@ EXCEPT !.pc = "finish", !.written = n, !.cut = (n < handlers[h].body),
                     !.body = 0]]
    /\ UNCHANGED <<token, uploads, next_id, clock, has_queue, queue, worker, resp, hist, scan>>

\* uploads.tus_patch, lines 266-325, of an overlapping request
tus_patch_finish(h) ==
    LET u   == handlers[h].id
        rec == handlers[h].rec
        out == patch_commit(rec, uploads[u], files[u], handlers[h].written)
    IN
    /\ handlers[h].pc = "finish"
    /\ handlers' = [handlers EXCEPT ![h] = IdleHandler]
    /\ patch_apply(u, rec, out)
    /\ hist' = [hist EXCEPT ![u] =
           note_patch(@, rec, handlers[h].cut, handlers[h].written, files[u], out)]
    /\ UNCHANGED <<token, next_id, has_queue, worker, scan>>

\* the server process dies while requests are in flight (uploads.tus_patch
\* between the write at line 261 and the commits at lines 299, 306 and 312) and
\* is started again: the sessions and what they had not committed are gone, no
\* response is sent, the queue (held in memory) is empty; the rows and the
\* files are as the last commit and the last write left them
server_crash ==
    /\ \E h \in Handlers : handlers[h].pc # "idle"
    /\ handlers' = [h \in Handlers |-> IdleHandler]
    /\ queue' = <<>>
    /\ worker' = [IdleWorker EXCEPT !.task = IF has_queue THEN "running" ELSE "none"]
    /\ resp' = NoResp
    /\ UNCHANGED <<token, uploads, files, next_id, clock, has_queue, hist, scan>>

\* utils._needs_faststart is called on the file
needs_faststart_call ==
    /\ scan.answer = "none"
    /\ scan' = [scan EXCEPT !.answer = IF needs_faststart(scan.data, scan_bytes)
                                       THEN "True" ELSE "False"]
    /\ UNCHANGED <<token, uploads, files, next_id, clock, handlers, has_queue, queue, worker,
                   resp, hist>>

\* the file is written again with the two markers exchanged (every b"moov"
\* where a b"mdat" was and the other way round), to be checked again
exchange_markers ==
    /\ scan.answer # "none" /\ scan.before = "none"
    /\ scan' = [data |-> [i \in 1..Len(scan.data) |->
                              CASE scan.data[i] = "v" -> "d"
                                [] scan.data[i] = "d" -> "v"
                                [] OTHER -> scan.data[i]],
                answer |-> "none", before |-> scan.answer]
    /\ UNCHANGED <<token, uploads, files, next_id, clock, handlers, has_queue, queue, worker,
                   resp, hist>>

\* uploads.tus_delete
tus_delete(u) ==
    /\ IF uploads[u] = NoRecord THEN
            Respond("delete", u, HTTP_404, Null, Null) /\ UNCHANGED <<uploads, files>>
       ELSE IF ensure_token(FALSE) # 0 THEN
            Respond("delete", u, ensure_token(FALSE), Null, Null) /\ UNCHANGED <<uploads, files>>
       ELSE
            /\ files' = [files EXCEPT ![u] = NoFile]
            /\ uploads' = [uploads EXCEPT ![u] = NoRecord]
            /\ Respond("delete", u, HTTP_204, Null, Null)
    /\ UNCHANGED <<token, next_id, clock, handlers, has_queue, queue, worker, hist, scan>>

\* uploads.mark_complete
mark_complete(u) ==
    /\ IF uploads[u] = NoRecord THEN
            Respond("complete", u, HTTP_404, Null, Null) /\ UNCHANGED <<uploads, clock>>
       ELSE IF ensure_token(FALSE) # 0 THEN
            Respond("complete", u, ensure_token(FALSE), Null, Null) /\ UNCHANGED <<uploads, clock>>
       ELSE
            /\ clock' = now
            /\ uploads' = [uploads EXCEPT ![u] =
                   [@ EXCEPT !.status = "completed", !.completed_at = now]]
            /\ Respond("complete", u, HTTP_200, Null, Null)
    /\ UNCHANGED <<token, files, next_id, handlers, has_queue, queue, worker, hist, scan>>

\* uploads.cancel_upload
\* (cancel_upload_keep_slot: the same without the uploads_used decrement)
cancel_upload_keep_slot(u) ==
    /\ IF uploads[u] = NoRecord THEN
            Respond("cancel", u, HTTP_404, Null, Null) /\ UNCHANGED <<token, uploads, files, hist>>
       ELSE IF ensure_token(FALSE) # 0 THEN
            Respond("cancel", u, ensure_token(FALSE), Null, Null)
            /\ UNCHANGED <<token, uploads, files, hist>>
       ELSE IF uploads[u].status = "completed" THEN
            Respond("cancel", u, HTTP_400, Null, Null) /\ UNCHANGED <<token, uploads, files, hist>>
       ELSE
            /\ files' = [files EXCEPT ![u] = NoFile]
            /\ uploads' = [uploads EXCEPT ![u] = NoRecord]
            /\ UNCHANGED token
            /\ Respond("cancel", u, HTTP_200, Null, Null)
            /\ hist' = [hist EXCEPT ![u].cancelled = TRUE]
    /\ UNCHANGED <<next_id, clock, handlers, has_queue, queue, worker, scan>>

cancel_upload(u) ==
    /\ IF uploads[u] = NoRecord THEN
            Respond("cancel", u, HTTP_404, Null, Null) /\ UNCHANGED <<token, uploads, files, hist>>
       ELSE IF ensure_token(FALSE) # 0 THEN
            Respond("cancel", u, ensure_token(FALSE), Null, Null)
            /\ UNCHANGED <<token, uploads, files, hist>>
       ELSE IF uploads[u].status = "completed" THEN
            Respond("cancel", u, HTTP_400, Null, Null) /\ UNCHANGED <<token, uploads, files, hist>>
       ELSE
            /\ files' = [files EXCEPT ![u] = NoFile]
            /\ uploads' = [uploads EXCEPT ![u] = NoRecord]
            /\ token' = [token EXCEPT !.uploads_used = @ - 1]
            /\ Respond("cancel", u, HTTP_200, Null, Null)
            /\ hist' = [hist EXCEPT ![u].cancelled = TRUE]
    /\ UNCHANGED <<next_id, clock, handlers, has_queue, queue, worker, scan>>

\* tokens.download_file and tokens.get_file_info, lines 365-378 and 412-425:
\* the status they answer with for an authorised caller that names the
\* token's download_token
\* (serve_status_any: the same without the completed check)
serve_status_any(u) ==
    IF uploads[u] = NoRecord THEN HTTP_404
    ELSE IF ~exists(files[u]) THEN HTTP_404
    ELSE HTTP_200

serve_status(u) ==
    IF uploads[u] = NoRecord THEN HTTP_404
    ELSE IF uploads[u].status # "completed" THEN HTTP_409
    ELSE IF ~exists(files[u]) THEN HTTP_404
    ELSE HTTP_200

\* tokens.download_file: a 200 is the FileResponse of the file
download_file(u) ==
    /\ Respond("download", u, serve_status(u), Null, Null)
    /\ UNCHANGED <<token, uploads, files, next_id, clock, handlers, has_queue, queue, worker, hist, scan>>

\* tokens.get_file_info: a 200 is the record with its download_url
get_file_info(u) ==
    /\ Respond("info", u, serve_status(u), Null, Null)
    /\ UNCHANGED <<token, uploads, files, next_id, clock, handlers, has_queue, queue, worker, hist, scan>>

\* tokens.get_token, called with the upload token or with the download token
\* of the row (the row is found by either): 403 for a disabled and for an
\* expired token, otherwise 200 with the token's information (its disabled
\* flag among it)
get_token(by_download_token) ==
    /\ Respond(IF by_download_token THEN "share" ELSE "token", NoId,
               IF token.disabled THEN HTTP_403
               ELSE IF token.expired THEN HTTP_403
               ELSE HTTP_200,
               Null, Null)
    /\ UNCHANGED <<token, uploads, files, next_id, clock, handlers, has_queue, queue, worker,
                   hist, scan>>

\* tokens.update_token with payload.disabled set
update_token(disabled) ==
    /\ token.disabled # disabled
    /\ token' = [token EXCEPT !.disabled = disabled]
    /\ UNCHANGED <<uploads, files, next_id, clock, handlers, has_queue, queue, worker, resp, hist, scan>>

\* tokens.update_token with payload.expiry_datetime set, to a time that has
\* passed or to one that has not (a token whose expires_at is reached while
\* nothing is done to it is in the same state as one moved into the past)
update_token_expiry(past) ==
    /\ token.expired # past
    /\ token' = [token EXCEPT !.expired = past]
    /\ UNCHANGED <<uploads, files, next_id, clock, handlers, has_queue, queue, worker, resp, hist, scan>>

\* tokens.update_token with payload.max_uploads set
update_token_max_uploads(max_uploads) ==
    /\ IF max_uploads < token.uploads_used THEN
            Respond("update", NoId, HTTP_422, Null, Null) /\ UNCHANGED token
       ELSE
            /\ token' = [token EXCEPT !.max_uploads = max_uploads]
            /\ Respond("update", NoId, HTTP_200, Null, Null)
    /\ UNCHANGED <<uploads, files, next_id, clock, handlers, has_queue, queue, worker, hist, scan>>

\* -------------------------------------------------------------- cleanup
\* cleanup._remove_stale_uploads, one sweep: old is the set of uploads whose
\* created_at lies before now - incomplete_ttl_hours.  The records among them
\* whose status is "pending" or "in_progress" are deleted and their files
\* unlinked; the token's uploads_used is left as it is.
remove_stale_uploads(old) ==
    LET stale == {u \in old : uploads[u] # NoRecord
                              /\ uploads[u].status \in {"pending", "in_progress"}}
    IN
    /\ uploads' = [u \in PublicIds |-> IF u \in stale THEN NoRecord ELSE uploads[u]]
    /\ files' = [u \in PublicIds |-> IF u \in stale THEN NoFile ELSE files[u]]
    /\ Respond("cleanup", NoId, 0, Null, Null)
    /\ UNCHANGED <<token, next_id, clock, handlers, has_queue, queue, worker, hist, scan>>

\* --------------------------------------------------------------- worker
\* ProcessingQueue.start_worker: a task is created when there is none or the
\* last one is done; otherwise the call does nothing
\* (start_worker_always: the same without the test of _worker_task)
start_worker_always ==
    /\ has_queue
    /\ worker' = [IdleWorker EXCEPT
                     !.task = "running",
                     !.orphans = IF worker.task \in {"running", "cancelling"}
                                 THEN Append(worker.orphans, worker.id)
                                 ELSE worker.orphans]
    /\ UNCHANGED <<token, uploads, files, next_id, clock, handlers, has_queue, queue, resp, hist, scan>>

start_worker ==
    /\ has_queue
    /\ IF worker.task \in {"none", "done"}
       THEN worker' = [IdleWorker EXCEPT !.task = "running"]
       ELSE UNCHANGED worker
    /\ UNCHANGED <<token, uploads, files, next_id, clock, handlers, has_queue, queue, resp, hist, scan>>

\* ProcessingQueue.stop_worker, lines 48-49: cancel() is called on a task that
\* is not done; the caller then awaits the task.  _queue is not touched.
\* (stop_worker_drop: the same with the ids waiting in _queue dropped)
stop_worker_drop ==
    /\ worker.task = "running"
    /\ worker' = [worker EXCEPT !.task = "cancelling"]
    /\ queue' = <<>>
    /\ hist' = [u \in PublicIds |->
                  IF \E i \in 1..Len(queue) : queue[i] = u
                  THEN [hist[u] EXCEPT !.waiting = TRUE] ELSE hist[u]]
    /\ UNCHANGED <<token, uploads, files, next_id, clock, handlers, has_queue, resp, scan>>

stop_worker ==
    /\ worker.task = "running"
    /\ worker' = [worker EXCEPT !.task = "cancelling"]
    /\ hist' = [u \in PublicIds |->
                  IF \E i \in 1..Len(queue) : queue[i] = u
                  THEN [hist[u] EXCEPT !.waiting = TRUE] ELSE hist[u]]
    /\ UNCHANGED <<token, uploads, files, next_id, clock, handlers, has_queue, queue, resp, scan>>

\* ProcessingQueue._run_worker, lines 65-69: CancelledError is thrown into the
\* task at the await it is suspended at; the loop breaks and the task is done.
\* The item it held is dropped: nothing is committed, nothing is put back.
\* (worker_cancelled_requeue: the same with the item put back on the queue)
worker_cancelled_requeue ==
    /\ worker.task = "cancelling"
    /\ worker' = [IdleWorker EXCEPT !.task = "done"]
    /\ queue' = IF worker.id # NoId THEN <<worker.id>> \o queue ELSE queue
    /\ hist' = IF worker.id # NoId THEN [hist EXCEPT ![worker.id].abandoned = TRUE] ELSE hist
    /\ UNCHANGED <<token, uploads, files, next_id, clock, handlers, has_queue, resp, scan>>

worker_cancelled ==
    /\ worker.task = "cancelling"
    /\ worker' = [IdleWorker EXCEPT !.task = "done"]
    /\ hist' = IF worker.id # NoId THEN [hist EXCEPT ![worker.id].abandoned = TRUE] ELSE hist
    /\ UNCHANGED <<token, uploads, files, next_id, clock, handlers, has_queue, queue, resp, scan>>

\* commit of the worker's session: the row is written by primary key; when the
\* row is gone the flush raises and nothing is written.  (worker_commit_lost:
\* the same with the commit left out.)
worker_commit_lost(u, changed) ==
    UNCHANGED uploads

worker_commit(u, changed) ==
    IF uploads[u] = NoRecord THEN UNCHANGED uploads
    ELSE uploads' = [uploads EXCEPT ![u] = flush(@, worker.rec, changed)]

\* process_upload, lines 112-118: the record of an upload whose file is missing
\* (file_not_found_completed: the same with the record completed all the same)
file_not_found_completed(row) ==
    [row EXCEPT !.status = "completed", !.completed_at = now]

file_not_found(row) ==
    [row EXCEPT !.status = "failed", !.error = "File not found"]

\* ProcessingQueue._run_worker, lines 58-66: the worker after an item ended,
\* with an exception (failed) or without: it goes back to queue.get()
\* (after_item_uncaught: the same with the exception ending the loop)
after_item_uncaught(failed) ==
    [IdleWorker EXCEPT !.task = IF failed THEN "done" ELSE "running"]

after_item(failed) ==
    [IdleWorker EXCEPT !.task = "running"]

\* ProcessingQueue._run_worker, _process_upload_by_id and process_upload up to
\* its first await on a subprocess: the id is taken from the queue, the record
\* loaded, the file looked for; needs is the answer of utils._needs_faststart
worker_get(needs) ==
    LET u   == Head(queue)
        rec == uploads[u]
    IN
    /\ worker.task = "running" /\ worker.pc = "get"
    /\ queue # <<>>
    /\ queue' = Tail(queue)
    /\ IF rec = NoRecord THEN
            /\ hist' = [hist EXCEPT ![u].start = Starts + 1]
            /\ UNCHANGED <<uploads, clock, worker>>
       ELSE IF ~exists(files[u]) THEN
            /\ uploads' = [uploads EXCEPT ![u] = file_not_found(@)]
            /\ hist' = [hist EXCEPT ![u].processed = TRUE, ![u].returned = "False",
                                    ![u].start = Starts + 1]
            /\ UNCHANGED <<clock, worker>>
       ELSE IF ~(rec.mimetype # NoType /\ is_multimedia(rec.mimetype)) THEN
            /\ clock' = now
            /\ uploads' = [uploads EXCEPT ![u] =
                   [@ EXCEPT !.status = "completed", !.completed_at = now]]
            /\ hist' = [hist EXCEPT ![u].processed = TRUE, ![u].returned = "True",
                                    ![u].start = Starts + 1]
            /\ UNCHANGED worker
       ELSE
            /\ worker' = [worker EXCEPT !.id = u, !.rec = rec,
                   !.pc = IF rec.mimetype = VideoMp4 /\ needs THEN "ffmpeg" ELSE "ffprobe",
                   !.tmp = IF rec.mimetype = VideoMp4 /\ needs
                           THEN [size |-> 0, head |-> "none"] ELSE NoFile]
            /\ hist' = [hist EXCEPT ![u].raised = {}, ![u].start = Starts + 1]
            /\ UNCHANGED <<uploads, clock>>
    /\ UNCHANGED <<token, files, next_id, handlers, has_queue, resp, scan>>

\* utils.ensure_faststart_mp4, lines 316-341: the remux subprocess ends with
\* exit code 0 (ok) or another one, having written `size` bytes to the
\* temporary file; after exit code 0 and a non-empty output the temporary file
\* replaces the file at the upload's path, otherwise RuntimeError is raised and
\* the temporary file is unlinked
\* (worker_ffmpeg_strict: the same with a failed remux failing the upload;
\* worker_ffmpeg_in_place: the same with the remux writing over the upload's
\* file instead of a temporary file)
worker_ffmpeg_in_place(ok, size) ==
    /\ worker.task = "running" /\ worker.pc = "ffmpeg"
    /\ worker' = [worker EXCEPT !.pc = "ffprobe", !.tmp = NoFile]
    /\ files' = [files EXCEPT ![worker.id] =
                    [size |-> size, head |-> IF size > 0 THEN "V" ELSE "none"]]
    /\ hist' = IF ok /\ size > 0 THEN hist
               ELSE [hist EXCEPT ![worker.id].raised = @ \cup {"faststart"}]
    /\ UNCHANGED <<token, uploads, next_id, clock, handlers, has_queue, queue, resp, scan>>

worker_ffmpeg_strict(ok, size) ==
    /\ worker.task = "running" /\ worker.pc = "ffmpeg"
    /\ IF ok /\ size > 0
       THEN /\ files' = [files EXCEPT ![worker.id] = [size |-> size, head |-> "V"]]
            /\ worker' = [worker EXCEPT !.pc = "ffprobe", !.tmp = NoFile]
            /\ UNCHANGED <<hist, uploads>>
       ELSE /\ UNCHANGED files
            /\ worker' = after_item(TRUE)
            /\ worker_commit(worker.id, [worker.rec EXCEPT !.status = "failed",
                                                           !.error = "Post-processing failed"])
            /\ hist' = [hist EXCEPT ![worker.id].raised = @ \cup {"faststart"},
                                    ![worker.id].processed = TRUE,
                                    ![worker.id].returned = "False"]
    /\ UNCHANGED <<token, next_id, clock, handlers, has_queue, queue, resp, scan>>

worker_ffmpeg(ok, size) ==
    /\ worker.task = "running" /\ worker.pc = "ffmpeg"
    /\ worker' = [worker EXCEPT !.pc = "ffprobe", !.tmp = NoFile]
    /\ IF ok /\ size > 0
       THEN /\ files' = [files EXCEPT ![worker.id] = [size |-> size, head |-> "V"]]
            /\ UNCHANGED hist
       ELSE /\ UNCHANGED files
            /\ hist' = [hist EXCEPT ![worker.id].raised = @ \cup {"faststart"}]
    /\ UNCHANGED <<token, uploads, next_id, clock, handlers, has_queue, queue, resp, scan>>

\* process_upload, lines 131-155: utils.extract_ffprobe_metadata (found: it
\* returned a document) and the final commit.  (worker_ffprobe_strict: the same
\* with a prober that returned nothing treated as a failure.)
worker_ffprobe_strict(found) ==
    LET u   == worker.id
        rec == worker.rec
    IN
    /\ worker.task = "running" /\ worker.pc = "ffprobe"
    /\ worker' = after_item(~exists(files[u]) \/ uploads[u] = NoRecord)
    /\ hist' = [hist EXCEPT ![u].processed = TRUE,
                            ![u].returned = IF uploads[u] = NoRecord THEN "raised"
                                            ELSE IF ~exists(files[u]) \/ ~found THEN "False"
                                            ELSE "True",
                            ![u].raised = @ \cup (IF ~exists(files[u]) THEN {"probe"} ELSE {})
                                            \cup (IF uploads[u] = NoRecord THEN {"commit"} ELSE {})]
    /\ IF ~exists(files[u]) \/ ~found THEN
            /\ worker_commit(u, [rec EXCEPT !.status = "failed",
                                            !.error = "Post-processing failed"])
            /\ UNCHANGED clock
       ELSE
            /\ clock' = now
            /\ worker_commit(u, [rec EXCEPT !.status = "completed", !.completed_at = now,
                                            !.ffprobe = TRUE])
    /\ UNCHANGED <<token, files, next_id, handlers, has_queue, queue, resp, scan>>

worker_ffprobe(found) ==
    LET u   == worker.id
        rec == worker.rec
    IN
    /\ worker.task = "running" /\ worker.pc = "ffprobe"
    /\ worker' = after_item(~exists(files[u]) \/ uploads[u] = NoRecord)
    /\ hist' = [hist EXCEPT ![u].processed = TRUE,
                            ![u].returned = IF uploads[u] = NoRecord THEN "raised"
                                            ELSE IF ~exists(files[u]) THEN "False"
                                            ELSE "True",
                            ![u].raised = @ \cup (IF ~exists(files[u]) THEN {"probe"} ELSE {})
                                            \cup (IF uploads[u] = NoRecord THEN {"commit"} ELSE {})]
    /\ IF ~exists(files[u]) THEN
            /\ worker_commit(u, [rec EXCEPT !.status = "failed",
                                            !.error = "Post-processing failed"])
            /\ UNCHANGED clock
       ELSE
            /\ clock' = now
            /\ worker_commit(u, [rec EXCEPT !.status = "completed", !.completed_at = now,
                                            !.ffprobe = (found \/ rec.ffprobe)])
    /\ UNCHANGED <<token, files, next_id, handlers, has_queue, queue, resp, scan>>

\* the file at an upload's storage_path disappears from the disk without a
\* request (the case process_upload tests with path.exists())
file_lost(u) ==
    /\ uploads[u] # NoRecord
    /\ exists(files[u])
    /\ files' = [files EXCEPT ![u] = NoFile]
    /\ UNCHANGED <<token, uploads, next_id, clock, handlers, has_queue, queue, worker, resp, hist, scan>>

\* --------------------------------------------------------- specifications
\* requests are served one after the other, the worker runs beside them
Next ==
    \/ next_id < MaxUploads
          /\ \E s \in {Null} \cup 1..(MaxLen + 1), t \in Declared : initiate_upload(s, t)
    \/ \E u \in Ids : tus_head(u)
    \/ \E u \in Ids, o \in 0..MaxLen, k \in 0..MaxBody :
           \E cl \in {Null, k} : tus_patch(u, o, TRUE, cl, k)
    \/ \E u \in Ids, o \in 0..MaxLen : tus_patch(u, o, FALSE, Null, 0)
    \/ \E u \in Ids : tus_delete(u)
    \/ \E u \in Ids : mark_complete(u)
    \/ \E u \in Ids : cancel_upload(u)
    \/ \E d \in BOOLEAN : update_token(d)
    \/ \E needs \in BOOLEAN : worker_get(needs)
    \/ \E ok \in BOOLEAN, size \in 0..MaxLen : worker_ffmpeg(ok, size)
    \/ \E found \in BOOLEAN : worker_ffprobe(found)

Spec == Init /\ [][Next]_vars

\* requests of several clients overlap: the chunk-append handlers interleave at
\* their awaits
NextConc ==
    \/ next_id < MaxUploads /\ \E s \in 1..MaxLen, t \in Declared : initiate_upload(s, t)
    \/ \E h \in Handlers, u \in Ids, o \in 0..MaxLen, k \in 1..MaxBody :
           tus_patch_begin(h, u, o, TRUE, Null, k)
    \/ \E h \in Handlers, n \in 0..MaxBody, b \in Bytes \cup {"none"} : tus_patch_stream(h, n, b)
    \/ \E h \in Handlers : tus_patch_finish(h)

SpecConc == Init /\ [][NextConc]_vars

\* chunk-append requests on several uploads overlap: one-byte chunks are sent
\* to uploads declared as text
NextParallel ==
    \/ \E s \in 1..MaxLen : initiate_upload(s, TextPlain)
    \/ \E h \in Handlers, u \in PublicIds :
           tus_patch_begin(h, u, uploads[u].upload_offset, TRUE, Null, 1)
    \/ \E h \in Handlers, n \in 0..MaxBody, b \in Bytes \cup {"none"} : tus_patch_stream(h, n, b)
    \/ \E h \in Handlers : tus_patch_finish(h)

SpecParallel == Init /\ [][NextParallel]_vars

\* the same with a server that can die and be started again at any moment
NextCrash ==
    \/ next_id < MaxUploads /\ \E s \in 1..MaxLen, t \in Declared : initiate_upload(s, t)
    \/ \E h \in Handlers, u \in Ids, o \in 0..MaxLen, k \in 1..MaxBody :
           tus_patch_begin(h, u, o, TRUE, Null, k)
    \/ \E h \in Handlers, n \in 0..MaxBody, b \in Bytes \cup {"none"} : tus_patch_stream(h, n, b)
    \/ \E h \in Handlers : tus_patch_finish(h)
    \/ server_crash

SpecCrash == Init /\ [][NextCrash]_vars

\* the TUS endpoints and the token: requests are served one after the other
\* while the administrator disables and enables the token and moves its expiry
NextAccess ==
    \/ next_id < MaxUploads
          /\ \E s \in {Null} \cup 1..MaxLen, t \in Declared : initiate_upload(s, t)
    \/ \E u \in Ids : tus_head(u)
    \/ \E u \in Ids, o \in 0..MaxLen, k \in 0..MaxBody :
           \E cl \in {Null, k} : tus_patch(u, o, TRUE, cl, k)
    \/ \E u \in Ids, o \in 0..MaxLen, k \in 0..MaxBody :
           \E cl \in {Null, k} : tus_patch(u, o, FALSE, cl, k)
    \/ \E u \in Ids : tus_delete(u)
    \/ \E d \in BOOLEAN : update_token(d)
    \/ \E past \in BOOLEAN : update_token_expiry(past)

SpecAccess == Init /\ [][NextAccess]_vars

\* the worker and its queue: one-byte uploads of several ids are finished,
\* cancelled or lose their file while the worker, scheduled whenever it has a
\* step to take, works through the queue
NextWorker ==
    \/ \E t \in Declared : initiate_upload(1, t)
    \/ \E u \in PublicIds : tus_patch(u, 0, TRUE, Null, 1)
    \/ \E u \in PublicIds : cancel_upload(u)
    \/ \E u \in PublicIds : file_lost(u)
    \/ \E needs \in BOOLEAN : worker_get(needs)
    \/ \E ok \in BOOLEAN, size \in 0..MaxLen : worker_ffmpeg(ok, size)
    \/ \E found \in BOOLEAN : worker_ffprobe(found)

SpecWorker ==
    /\ Init
    /\ [][NextWorker]_vars
    /\ WF_vars(\E needs \in BOOLEAN : worker_get(needs))
    /\ WF_vars(\E ok \in BOOLEAN, size \in 0..MaxLen : worker_ffmpeg(ok, size))
    /\ WF_vars(\E found \in BOOLEAN : worker_ffprobe(found))

\* the life of the worker task: one-byte uploads are finished while the worker
\* is started, stopped and started again
NextLifecycle ==
    \/ \E t \in Declared : initiate_upload(1, t)
    \/ \E u \in PublicIds : tus_patch(u, 0, TRUE, Null, 1)
    \/ start_worker
    \/ stop_worker
    \/ worker_cancelled
    \/ \E needs \in BOOLEAN : worker_get(needs)
    \/ \E ok \in BOOLEAN, size \in 0..MaxLen : worker_ffmpeg(ok, size)
    \/ \E found \in BOOLEAN : worker_ffprobe(found)

SpecLifecycle == Init /\ [][NextLifecycle]_vars

\* the same with the worker task scheduled: a running loop takes its next step
\* (asyncio runs a ready task; the subprocesses it awaits end) and a cancelled
\* one ends
SpecRestart ==
    /\ Init
    /\ [][NextLifecycle]_vars
    /\ WF_vars(worker_cancelled)
    /\ WF_vars(\E needs \in BOOLEAN : worker_get(needs))
    /\ WF_vars(\E ok \in BOOLEAN, size \in 0..MaxLen : worker_ffmpeg(ok, size))
    /\ WF_vars(\E found \in BOOLEAN : worker_ffprobe(found))

\* admission of uploads: initiate requests of any size and type, with or
\* without a declared type, while the administrator disables the token, moves
\* its expiry and changes max_uploads, and uploads are cancelled
NextAdmission ==
    \/ \E s \in {Null} \cup 1..(MaxLen + 1), t \in {NoType, TextPlain, AudioMpeg, VideoMp4} :
           initiate_upload(s, t)
    \/ \E u \in PublicIds : cancel_upload(u)
    \/ \E by_download_token \in BOOLEAN : get_token(by_download_token)
    \/ \E d \in BOOLEAN : update_token(d)
    \/ \E past \in BOOLEAN : update_token_expiry(past)
    \/ \E m \in 0..MaxIds : update_token_max_uploads(m)

SpecAdmission == Init /\ [][NextAdmission]_vars

\* the upload slots of a token: uploads are initiated, completed, cancelled and
\* deleted one request after the other, and the administrator changes
\* max_uploads
NextQuota ==
    \/ \E s \in 1..MaxLen, t \in Declared : initiate_upload(s, t)
    \/ \E u \in PublicIds : cancel_upload(u)
    \/ \E u \in PublicIds : tus_delete(u)
    \/ \E u \in PublicIds : mark_complete(u)
    \/ \E m \in 0..MaxIds : update_token_max_uploads(m)

SpecQuota == Init /\ [][NextQuota]_vars

\* the same with initiate requests that overlap (their sessions interleave at
\* the awaits on the database)
NextInitiate ==
    \/ \E h \in Handlers, s \in 1..MaxLen, t \in Declared : initiate_upload_begin(h, s, t)
    \/ \E h \in Handlers : initiate_upload_commit(h)
    \/ \E u \in PublicIds : cancel_upload(u)
    \/ \E m \in 0..MaxIds : update_token_max_uploads(m)

SpecInitiate == Init /\ [][NextInitiate]_vars

\* the faststart check on every MP4 file of at most MaxData bytes
InitScan ==
    /\ scan \in {[NoScan EXCEPT !.data = d] : d \in Mp4Files(MaxData)}
    /\ token \in {[allowed_mime |-> <<>>, disabled |-> FALSE, expired |-> FALSE,
                   max_uploads |-> MaxIds, uploads_used |-> 0,
                   max_size_bytes |-> MaxLen]}
    /\ uploads = [u \in PublicIds |-> NoRecord]
    /\ files = [u \in PublicIds |-> NoFile]
    /\ next_id = 0
    /\ clock = 0
    /\ handlers = [h \in Handlers |-> IdleHandler]
    /\ has_queue = TRUE
    /\ queue = <<>>
    /\ worker = [IdleWorker EXCEPT !.task = "running"]
    /\ resp = NoResp
    /\ hist = [u \in PublicIds |-> NoHist]

NextScan ==
    \/ needs_faststart_call
    \/ exchange_markers

SpecScan == InitScan /\ [][NextScan]_vars

\* the periodic cleanup beside the upload requests: uploads are initiated and
\* receive chunks (whole, cut short or empty), and a sweep runs at any time
\* with any set of uploads older than incomplete_ttl_hours
NextCleanup ==
    \/ \E s \in 1..MaxLen, t \in Declared : initiate_upload(s, t)
    \/ \E u \in PublicIds, k \in 0..MaxBody :
           uploads[u] # NoRecord /\ tus_patch(u, uploads[u].upload_offset, TRUE, Null, k)
    \/ \E old \in SUBSET PublicIds : remove_stale_uploads(old)

SpecCleanup == Init /\ [][NextCleanup]_vars

\* the post-processing pipeline: uploads are completed, cancelled or deleted by
\* clients, files can be lost, and the worker task is scheduled as long as it
\* has a step to take (asyncio runs a ready task; the subprocesses it awaits end)
NextLive ==
    \/ next_id < MaxUploads /\ \E s \in 1..MaxLen, t \in Declared : initiate_upload(s, t)
    \/ \E u \in Ids, k \in 1..MaxBody : tus_patch(u, uploads[u].upload_offset, TRUE, Null, k)
    \/ \E u \in Ids : tus_delete(u)
    \/ \E u \in Ids : mark_complete(u)
    \/ \E u \in Ids : cancel_upload(u)
    \/ \E u \in Ids : file_lost(u)
    \/ \E u \in Ids : download_file(u)
    \/ \E u \in Ids : get_file_info(u)
    \/ \E needs \in BOOLEAN : worker_get(needs)
    \/ \E ok \in BOOLEAN, size \in 0..MaxLen : worker_ffmpeg(ok, size)
    \/ \E found \in BOOLEAN : worker_ffprobe(found)

SpecLive ==
    /\ Init
    /\ [][NextLive]_vars
    /\ WF_vars(\E needs \in BOOLEAN : worker_get(needs))
    /\ WF_vars(\E ok \in BOOLEAN, size \in 0..MaxLen : worker_ffmpeg(ok, size))
    /\ WF_vars(\E found \in BOOLEAN : worker_ffprobe(found))

\* ------------------------------------------------------------ properties
\* a step of tus_patch on u that went past the precondition checks: n bytes of
\* a body of `body` bytes, the first of them b, reached the file
Appends(u, body, n, b) ==
    /\ resp'.op = "patch" /\ resp'.id = u
    /\ patch_precheck(u, uploads[u].upload_offset, TRUE, Null) = 0
    /\ tus_patch_body(u, body, n, b)
    /\ UNCHANGED <<token, next_id, handlers, has_queue, worker>>

\* a well-formed chunk-append request on an existing upload of known length
\* whose token is usable: it reaches the Upload-Offset comparison
ReachesOffsetCheck(u, content_type_ok, content_length) ==
    /\ content_type_ok
    /\ ~(content_length # Null /\ content_length > max_chunk_bytes)
    /\ uploads[u] # NoRecord
    /\ ~token.disabled /\ ~token.expired
    /\ uploads[u].upload_length # Null

\* C1: when the calls of a sequence of chunk appends on an upload were all
\* accepted (204), each claimed the number of bytes delivered before it, and the
\* bytes delivered add up to the declared length, the call that delivers the
\* last byte leaves upload_offset equal to upload_length and the file
\* upload_length bytes long.
C1_SequenceReachesLength ==
    [][\A u \in Ids :
          ( /\ uploads[u] # NoRecord
            /\ hist'[u].sent # hist[u].sent
            /\ hist'[u].sent # Null
            /\ hist'[u].sent = uploads[u].upload_length )
          => /\ uploads'[u] # NoRecord
             /\ uploads'[u].upload_offset = uploads[u].upload_length
             /\ files'[u].size = uploads[u].upload_length]_vars

\* a declared length of MaxLen bytes was delivered in more than one call
C1_Witness ==
    \E u \in Ids :
        /\ uploads[u] # NoRecord
        /\ uploads[u].upload_length = MaxLen
        /\ hist[u].sent = MaxLen
        /\ hist[u].parts > 1
        /\ uploads[u].upload_offset = MaxLen
        /\ files[u].size = MaxLen

\* C2: a chunk-append call that reaches the Upload-Offset comparison with a
\* claimed offset other than the recorded one is answered 409 and leaves the
\* record (offset, status and all) and the file as they were: a step that is
\* not a 409 leaving uploads and files alone is no such call.
C2_MismatchConflict ==
    [][\A u \in Ids :
          \/ resp'.op # "patch" \/ resp'.id # u
          \/ (resp'.code = HTTP_409 /\ uploads' = uploads /\ files' = files)
          \/ \A o \in 0..MaxLen, k \in 0..MaxBody, cl \in {Null} \cup 0..MaxBody :
                ~ ( /\ cl \in {Null, k}
                    /\ ReachesOffsetCheck(u, TRUE, cl)
                    /\ uploads[u].upload_offset # o
                    /\ tus_patch(u, o, TRUE, cl, k) )]_vars

\* a 409 was sent for an upload that is in progress (its length is known, so
\* the claimed offset was the reason)
C2_Witness ==
    /\ resp.op = "patch"
    /\ resp.code = HTTP_409
    /\ uploads[resp.id].status = "in_progress"
    /\ uploads[resp.id].upload_offset > 0
    /\ files[resp.id].size = uploads[resp.id].upload_offset

\* C3: in every committed state 0 <= upload_offset <= upload_length, the
\* offset never decreases from one committed state to the next, and a call
\* answered 413 leaves the record as it was.
C3_OffsetMonotone ==
    [][\A u \in Ids :
          /\ (uploads'[u] # NoRecord /\ uploads'[u].upload_length # Null) =>
                /\ 0 <= uploads'[u].upload_offset
                /\ uploads'[u].upload_offset <= uploads'[u].upload_length
          /\ (uploads[u] # NoRecord /\ uploads'[u] # NoRecord) =>
                uploads'[u].upload_offset >= uploads[u].upload_offset
          /\ (resp' # resp /\ resp'.op = "patch" /\ resp'.id = u /\ resp'.code = HTTP_413) =>
                uploads'[u] = uploads[u]]_vars

C5_DisconnectResume ==
    [][\A u \in Ids, k \in 1..MaxBody, n \in 1..MaxBody, b \in Bytes :
          LET old  == uploads[u].upload_offset
              len  == uploads[u].upload_length
              size == IF exists(files[u]) THEN files[u].size ELSE 0
              permitted == mime_allowed(detect_mimetype(append(files[u], n, b)),
                                        token.allowed_mime)
          IN  Appends(u, k, n, b) =>
                /\ (n < k /\ old + n < len) =>
                      /\ resp'.code = HTTP_204
                      /\ resp'.offset = old + n
                      /\ uploads'[u].upload_offset = old + n
                      /\ uploads'[u].status = "in_progress"
                      /\ files'[u].size = size + n
                /\ (n < k /\ old + n = len /\ permitted) =>
                      /\ resp'.code = HTTP_204
                      /\ uploads'[u].upload_offset = len
                /\ (hist[u].cut /\ n = k /\ old + n = len /\ permitted) =>
                      /\ resp'.code = HTTP_204
                      /\ uploads'[u].upload_offset = len
                      /\ files'[u].size = size + n]_vars

\* an upload whose first body was cut short was resumed and reached its length
C5_Witness ==
    \E u \in Ids :
        /\ hist[u].cut
        /\ uploads[u] # NoRecord
        /\ hist[u].sent = uploads[u].upload_length
        /\ uploads[u].upload_offset = uploads[u].upload_length
        /\ resp.op = "patch" /\ resp.id = u /\ resp.code = HTTP_204

\* C6: a final chunk whose sniffed type is permitted and is neither audio nor
\* video is answered 204 and leaves the upload completed with completed_at set,
\* in that call; the id is not put on the queue then or later, the worker never
\* holds it, and the record never gets a probe entry.
C6_DirectCompletion ==
    [][\A u \in Ids :
          /\ (hist'[u].direct /\ ~hist[u].direct) =>
                /\ resp'.code = HTTP_204
                /\ uploads'[u].status = "completed"
                /\ uploads'[u].completed_at # Null
                /\ queue' = queue
          /\ hist'[u].direct =>
                /\ \A i \in 1..Len(queue') : queue'[i] # u
                /\ worker'.id # u
                /\ uploads'[u] # NoRecord => ~uploads'[u].ffprobe]_vars

\* a text upload was completed by its final chunk while a queue and a running
\* worker were there
C6_Witness ==
    \E u \in Ids :
        /\ hist[u].direct
        /\ has_queue /\ worker.task = "running"
        /\ uploads[u] # NoRecord
        /\ uploads[u].status = "completed"
        /\ uploads[u].mimetype = TextPlain
        /\ uploads[u].completed_at # Null

\* C7: every final chunk whose sniffed type is permitted and is audio or video
\* leaves the status postprocessing and completed_at unset, and puts the id on
\* the processing queue once, in that call.
C7_MultimediaEnqueued ==
    [][\A u \in Ids, k \in 1..MaxBody, n \in 1..MaxBody, b \in Bytes :
          LET sniffed == detect_mimetype(append(files[u], n, b)) IN
          ( /\ Appends(u, k, n, b)
            /\ uploads[u].upload_offset + n = uploads[u].upload_length
            /\ sniffed[1] \in {"video", "audio"}
            /\ mime_allowed(sniffed, token.allowed_mime) )
          => /\ uploads'[u].status = "postprocessing"
             /\ uploads'[u].completed_at = Null
             /\ queue' = Append(queue, u)]_vars

\* C8 as stated: when the worker has finished a multimedia upload, the record
\* is completed with a probe entry, or failed with an error string.
C8_ProbeOrFailed ==
    [][\A u \in Ids :
          (hist'[u].processed /\ ~hist[u].processed /\ uploads'[u] # NoRecord) =>
             \/ uploads'[u].status = "completed" /\ uploads'[u].ffprobe
             \/ uploads'[u].status = "failed" /\ uploads'[u].error # "none"]_vars

\* C8, amended: when the worker has finished a multimedia upload whose record
\* still exists, the record is completed, with completed_at set and with a
\* probe entry exactly when the prober returned a document, or (its file being
\* gone) failed with an error string.
C8_CompletedOrFailed ==
    [][\A u \in Ids :
          (hist'[u].processed /\ ~hist[u].processed /\ uploads'[u] # NoRecord) =>
             \/ /\ uploads'[u].status = "completed"
                /\ uploads'[u].completed_at # Null
                /\ uploads'[u].error = "none"
                /\ exists(files[u])
                /\ \A found \in BOOLEAN : worker_ffprobe(found) => uploads'[u].ffprobe = found
             \/ /\ uploads'[u].status = "failed"
                /\ uploads'[u].error # "none"
                /\ ~uploads'[u].ffprobe
                /\ ~exists(files[u])]_vars

\* the worker finished an audio or video upload whose prober returned nothing:
\* the record is completed and has no probe entry
C8_Witness ==
    \E u \in Ids :
        /\ hist[u].processed
        /\ uploads[u] # NoRecord
        /\ uploads[u].mimetype[1] \in {"video", "audio"}
        /\ uploads[u].status = "completed"
        /\ uploads[u].error = "none"
        /\ ~uploads[u].ffprobe

\* C9 as stated: while the worker runs, every upload in postprocessing
\* eventually is completed or failed.
C9_EventuallyDone ==
    \A u \in Ids :
        (worker.task = "running" /\ uploads[u].status = "postprocessing")
            ~> (uploads[u].status \in {"completed", "failed"})

\* C9, amended: while the worker runs, every upload in postprocessing
\* eventually is completed or failed, or its record has been deleted by a
\* cancel or delete request.
C9_EventuallyDoneOrDeleted ==
    \A u \in Ids :
        (worker.task = "running" /\ uploads[u].status = "postprocessing")
            ~> (uploads[u] = NoRecord \/ uploads[u].status \in {"completed", "failed"})

\* the running worker has emptied the queue and left an upload completed with
\* its probe entry
C9_Witness ==
    \E u \in Ids :
        /\ worker.task = "running" /\ worker.pc = "get" /\ queue = <<>>
        /\ hist[u].processed
        /\ uploads[u] # NoRecord
        /\ uploads[u].status = "completed"
        /\ uploads[u].ffprobe

\* C10: a final chunk whose sniffed type the allow-list does not permit is
\* answered 415 and leaves neither record nor file; the record never comes
\* back, so every later status query is answered 404; a final chunk whose
\* sniffed type is permitted keeps record and file.
C10_DisallowedTypeDeleted ==
    [][/\ \A u \in Ids, k \in 1..MaxBody, n \in 1..MaxBody, b \in Bytes :
             LET file == append(files[u], n, b) IN
             (Appends(u, k, n, b) /\ uploads[u].upload_offset + n = uploads[u].upload_length)
             => IF mime_allowed(detect_mimetype(file), token.allowed_mime)
                THEN /\ resp'.code = HTTP_204
                     /\ uploads'[u] # NoRecord
                     /\ files'[u] = file
                ELSE /\ resp'.code = HTTP_415
                     /\ uploads'[u] = NoRecord
                     /\ files'[u] = NoFile
       /\ \A u \in Ids : hist'[u].rejected => (uploads'[u] = NoRecord /\ files'[u] = NoFile)
       /\ \A u \in Ids : (hist[u].rejected /\ tus_head(u)) => resp'.code = HTTP_404]_vars

\* a status query was answered 404 for an upload whose final chunk had been
\* refused for its sniffed type
C10_Witness ==
    \E u \in Ids :
        /\ hist[u].rejected
        /\ uploads[u] = NoRecord /\ files[u] = NoFile
        /\ resp.op = "head" /\ resp.id = u /\ resp.code = HTTP_404

\* C11: neither cancel_upload nor the TUS DELETE endpoint removes the record or
\* the file of a completed upload (the call is answered 400, record and file
\* stay as they were); for an upload in any other status the call deletes the
\* file, whether it exists or not, and the record.
C11_CompletedNeverDeleted ==
    [][\A u \in Ids :
          (uploads[u] # NoRecord /\ ensure_token(FALSE) = 0
              /\ (tus_delete(u) \/ cancel_upload(u))) =>
             IF uploads[u].status = "completed"
             THEN /\ resp'.code = HTTP_400
                  /\ uploads'[u] = uploads[u]
                  /\ files'[u] = files[u]
             ELSE /\ uploads'[u] = NoRecord
                  /\ files'[u] = NoFile]_vars

\* the uploads of the token that were initiated and not cancelled
NotCancelled == {u \in PublicIds : u <= next_id /\ ~hist[u].cancelled}

\* C12: an accepted initiate_upload takes one upload slot in the step that
\* creates the record, a successful cancel_upload gives one slot back, and after
\* every sequence of calls remaining_uploads is max_uploads minus the number of
\* uploads initiated and not cancelled.
C12_SlotsAccounted ==
    [][/\ (next_id' # next_id) => token'.uploads_used = token.uploads_used + 1
       /\ \A u \in PublicIds :
             (hist'[u].cancelled /\ ~hist[u].cancelled) =>
                 /\ token'.uploads_used = token.uploads_used - 1
                 /\ token'.max_uploads - token'.uploads_used
                      = (token.max_uploads - token.uploads_used) + 1
       /\ (token'.max_uploads - Cardinality(NotCancelled') = remaining_uploads')]_vars

\* two uploads were initiated and the first of them cancelled: one slot is in use
C12_Witness ==
    /\ next_id = 2
    /\ hist[1].cancelled /\ ~hist[2].cancelled
    /\ uploads[1] = NoRecord /\ uploads[2] # NoRecord
    /\ token.max_uploads = 2
    /\ token.uploads_used = 1
    /\ remaining_uploads = 1

\* C13: uploads_used never exceeds max_uploads; no upload record is created
\* while the token has no slot left (the initiate_upload is answered 403
\* instead), also when initiate calls of the token overlap; update_token never
\* sets max_uploads below uploads_used.
C13_QuotaNeverExceeded ==
    [][/\ token'.uploads_used <= token'.max_uploads
       /\ (next_id' # next_id) => remaining_uploads > 0
       /\ \A u \in PublicIds :
             (uploads[u] = NoRecord /\ uploads'[u] # NoRecord) => resp'.code = HTTP_201
       /\ (token'.max_uploads # token.max_uploads) =>
             token'.max_uploads >= token.uploads_used]_vars

\* C14: download_file and get_file_info answer 409 for an upload whose status
\* is initiated, in_progress, postprocessing or failed, and answer 200 (the file,
\* the record) only for an upload whose status is completed and whose file is
\* there.
C14_ServedOnlyCompleted ==
    [][\A u \in Ids :
          (download_file(u) \/ get_file_info(u)) =>
             /\ (uploads[u].status \in {"initiated", "in_progress", "postprocessing", "failed"})
                   => resp'.code = HTTP_409
             /\ (resp'.code = HTTP_200)
                   => (uploads[u].status = "completed" /\ exists(files[u]))]_vars

\* a download was refused with 409 while the upload waited for the worker or
\* had failed, its file being on the disk or lost
C14_Witness ==
    /\ resp.op = "download"
    /\ resp.code = HTTP_409
    /\ uploads[resp.id].status \in {"postprocessing", "failed"}
    /\ uploads[resp.id].upload_offset = uploads[resp.id].upload_length

\* C15: while the token of an upload is expired or disabled, a TUS HEAD, a TUS
\* DELETE and a well-formed TUS PATCH (chunk content type, Content-Length
\* within max_chunk_bytes) on it are answered 403, and no TUS request changes
\* anything: no byte is written, offset and status stay, record and file stay.
C15_TokenGate ==
    [][\A u \in Ids :
          (uploads[u] # NoRecord /\ (token.expired \/ token.disabled)
              /\ resp'.id = u /\ resp'.op \in {"head", "patch", "delete"}) =>
             /\ tus_head(u) => resp'.code = HTTP_403
             /\ tus_delete(u) =>
                   (resp'.code = HTTP_403 /\ uploads' = uploads /\ files' = files)
             /\ \A o \in 0..MaxLen, ct \in BOOLEAN, k \in 0..MaxBody,
                   cl \in {Null} \cup 0..MaxBody :
                   (cl \in {Null, k} /\ (ct \/ k = 0) /\ tus_patch(u, o, ct, cl, k)) =>
                      /\ uploads' = uploads /\ files' = files /\ queue' = queue
                      /\ (ct /\ ~(cl # Null /\ cl > max_chunk_bytes))
                            => resp'.code = HTTP_403]_vars

\* a chunk was refused with 403 for an upload in progress whose token is
\* expired and not disabled: record and file are as the earlier chunk left them
C15_Witness ==
    /\ resp.op = "patch"
    /\ resp.code = HTTP_403
    /\ token.expired /\ ~token.disabled
    /\ uploads[resp.id].status = "in_progress"
    /\ files[resp.id].size = uploads[resp.id].upload_offset
    /\ uploads[resp.id].upload_offset > 0

\* C16: process_upload on a record whose file does not exist at storage_path
\* leaves the record failed with the error "File not found", leaves
\* completed_at as it was, and returns False.
C16_MissingFileFails ==
    [][\A u \in Ids :
          ( /\ queue # <<>> /\ Head(queue) = u
            /\ uploads[u] # NoRecord
            /\ files[u].size < 0
            /\ \E needs \in BOOLEAN : worker_get(needs) )
          => /\ uploads'[u].status = "failed"
             /\ uploads'[u].error = "File not found"
             /\ uploads'[u].completed_at = uploads[u].completed_at
             /\ ~uploads'[u].ffprobe
             /\ hist'[u].returned = "False"
             /\ worker'.pc = "get"]_vars

\* the worker was given an audio or video upload whose file had been lost: the
\* record is failed, without a completion time
C16_Witness ==
    \E u \in Ids :
        /\ hist[u].returned = "False"
        /\ uploads[u] # NoRecord
        /\ uploads[u].mimetype[1] \in {"video", "audio"}
        /\ uploads[u].status = "failed"
        /\ uploads[u].error = "File not found"
        /\ uploads[u].completed_at = Null
        /\ ~exists(files[u])

\* u waits in the processing queue
InQueue(u) == \E i \in 1..Len(queue) : queue[i] = u

\* a step in which the worker's processing of u ends
Finishes(u) ==
    \/ /\ worker.pc = "get" /\ queue # <<>> /\ Head(queue) = u
       /\ queue' = Tail(queue) /\ worker'.id # u
    \/ /\ worker.id = u /\ worker'.id # u

\* C17 as stated: every exception raised while the worker processes an upload
\* ends in a failed record with an error message; the worker loop goes on, and
\* every id waiting in the queue is processed.
C17_ExceptionsFail ==
    /\ [][\A u \in PublicIds :
             (Finishes(u) /\ hist'[u].raised # {}) =>
                /\ uploads'[u] # NoRecord
                /\ uploads'[u].status = "failed"
                /\ uploads'[u].error # "none"
                /\ worker'.task = "running"]_vars
    /\ \A u \in PublicIds : InQueue(u) ~> (~InQueue(u) /\ worker.id # u)

\* C17, amended: every exception raised while the worker processes an upload is
\* caught; one raised by the faststart step alone leaves the record completed,
\* any other leaves the record, when it still exists, failed with an error
\* message; the worker loop goes on (it is back at queue.get), and every id
\* waiting in the queue is processed.
C17_ExceptionsContained ==
    /\ [][\A u \in PublicIds :
             Finishes(u) =>
                /\ worker'.task = "running" /\ worker'.pc = "get"
                /\ (hist'[u].raised \ {"faststart"} # {} /\ uploads'[u] # NoRecord) =>
                      /\ uploads'[u].status = "failed"
                      /\ uploads'[u].error # "none"
                /\ (hist'[u].raised = {"faststart"} /\ uploads'[u] # NoRecord) =>
                      /\ uploads'[u].status = "completed"
                      /\ uploads'[u].error = "none"]_vars
    /\ \A u \in PublicIds : InQueue(u) ~> (~InQueue(u) /\ worker.id # u)

\* the processing of the first upload ended with an exception and a failed
\* record while the second waited behind it; the worker is back at the queue
C17_Witness ==
    /\ "probe" \in hist[1].raised
    /\ uploads[1] # NoRecord
    /\ uploads[1].status = "failed"
    /\ uploads[1].error = "Post-processing failed"
    /\ queue = <<2>>
    /\ worker.task = "running" /\ worker.pc = "get" /\ worker.id = NoId

\* the worker loops that run: the task _worker_task names, while it is not
\* done, and the loops it no longer names
Loops ==
    (IF worker.task \in {"running", "cancelling"} THEN 1 ELSE 0) + Len(worker.orphans)

\* the uploads a worker loop is processing
InProcess ==
    {u \in PublicIds : worker.id = u \/ \E i \in 1..Len(worker.orphans) : worker.orphans[i] = u}

\* C18: however start_worker and stop_worker calls interleave, at most one
\* worker loop of the queue runs (a start_worker while a loop runs or is being
\* cancelled starts none), and at most one upload is being post-processed.
C18_OneWorker ==
    /\ Loops <= 1
    /\ Cardinality(InProcess) <= 1
    /\ (worker.id # NoId) => worker.task \in {"running", "cancelling"}

\* a worker that was started after another had been cancelled in the middle of
\* an item processes the next upload: it is the only loop
C18_Witness ==
    /\ hist[1].abandoned
    /\ worker.task = "running"
    /\ worker.id = 2
    /\ Loops = 1

\* C19: the worker takes the ids from the queue in the order in which enqueue
\* was called for them: the k-th id it starts to process is the k-th id that
\* was enqueued, however chunk-append calls and worker steps interleave.
C19_FifoOrder ==
    /\ \A u \in PublicIds : hist[u].start > 0 => hist[u].start = hist[u].enq
    /\ \A i, j \in 1..Len(queue) : i < j => hist[queue[i]].enq < hist[queue[j]].enq
    /\ Starts + Len(queue) = Enqueues

\* the upload initiated second was finished and enqueued first; the worker
\* took it first and the other one second
C19_Witness ==
    /\ hist[2].enq = 1 /\ hist[1].enq = 2
    /\ hist[2].start = 1 /\ hist[1].start = 2
    /\ queue = <<>>

\* C20: an upload the worker was processing when it was cancelled stays in
\* status postprocessing from then on, in every later state and also after the
\* worker has been started again: it is not marked completed or failed, gets no
\* completion time, probe entry or error, is not on the queue and is never held
\* by a worker again.
C20_AbandonedStays ==
    \A u \in PublicIds :
        hist[u].abandoned =>
            /\ uploads[u] # NoRecord
            /\ uploads[u].status = "postprocessing"
            /\ uploads[u].completed_at = Null
            /\ ~uploads[u].ffprobe
            /\ uploads[u].error = "none"
            /\ ~InQueue(u)
            /\ worker.id # u
            /\ ~hist[u].processed

\* the first upload was abandoned by a cancelled worker; the worker started
\* afterwards has processed the second upload and waits at the empty queue,
\* the first is still in postprocessing
C20_Witness ==
    /\ hist[1].abandoned
    /\ uploads[1].status = "postprocessing"
    /\ hist[2].processed
    /\ uploads[2].status = "completed"
    /\ worker.task = "running" /\ worker.pc = "get"
    /\ queue = <<>>

\* C21: when two chunk-append calls on the same upload with the same claimed
\* offset overlap, at most one of them takes effect and the other is a detected
\* conflict: they never both put bytes in the file, a call that finishes after
\* another one moved the committed offset is answered 409 and leaves the record
\* alone, the file is never longer than the offset recorded once the calls have
\* ended, and the id is never on the queue twice.
C21_DuplicateDetected ==
    [][\A u \in Ids :
          /\ \A h, g \in Handlers :
                ( /\ h # g
                  /\ handlers'[h].id = u /\ handlers'[g].id = u
                  /\ handlers'[h].rec.upload_offset = handlers'[g].rec.upload_offset )
                => ~(handlers'[h].written > 0 /\ handlers'[g].written > 0)
          /\ \A g \in Handlers :
                ( /\ handlers[g].pc = "finish" /\ handlers[g].id = u
                  /\ handlers'[g].pc = "idle"
                  /\ uploads[u] # NoRecord
                  /\ uploads[u].upload_offset # handlers[g].rec.upload_offset )
                => /\ resp'.code = HTTP_409
                   /\ uploads'[u] = uploads[u]
                   /\ files'[u].size <= uploads'[u].upload_offset
          /\ Cardinality({i \in 1..Len(queue') : queue'[i] = u}) <= 1]_vars

\* the number of bytes in the file of u (none when there is no file)
FileBytes(u) == IF exists(files[u]) THEN files[u].size ELSE 0

MarkerAt(marker) ==
    {i \in 0..(scan_bytes - 1) :
        /\ i + Len(marker) <= Len(scan.data) /\ i + Len(marker) <= scan_bytes
        /\ \A k \in 1..Len(marker) : scan.data[i + k] = marker[k]}

\* C23: _needs_faststart answers that a rewrite is needed exactly when, within
\* the scanned prefix, moov is absent or first appears after the first mdat,
\* and that none is needed when moov precedes mdat or is there without mdat; an
\* empty file needs a rewrite, and exchanging the two markers flips the answer.
C23_FaststartAnswer ==
    LET moovs == MarkerAt(moov_marker)
        mdats == MarkerAt(mdat_marker)
        later == /\ moovs # {} /\ mdats # {}
                 /\ \E d \in mdats : \A m \in moovs : d < m
    IN
    /\ scan.answer # "none" =>
          /\ scan.answer = "True" <=> (moovs = {} \/ later)
          /\ (moovs # {} /\ mdats = {}) => scan.answer = "False"
          /\ (moovs # {} /\ mdats # {} /\ \E m \in moovs : \A d \in mdats : m < d)
                => scan.answer = "False"
          /\ scan.data = <<>> => scan.answer = "True"
    /\ (scan.answer # "none" /\ scan.before # "none" /\ moovs # {} /\ mdats # {})
          => scan.answer # scan.before

\* a file with mdat before moov needed a rewrite; with the markers exchanged it
\* needs none, while a moov behind the scanned prefix is not seen
C23_Witness ==
    /\ scan.before = "True" /\ scan.answer = "False"
    /\ MarkerAt(moov_marker) # {} /\ MarkerAt(mdat_marker) # {}
    /\ Len(scan.data) > scan_bytes

\* C24: a faststart remux that fails does not fail the upload: process_upload
\* goes on to the probe with the record and the file untouched, and when
\* nothing else fails the item ends with the record completed, not failed.
C24_FaststartFailureTolerated ==
    [][\A u \in Ids :
          /\ ( /\ worker.pc = "ffmpeg" /\ worker.id = u
               /\ "faststart" \in hist'[u].raised )
             => /\ worker'.pc = "ffprobe" /\ worker'.id = u
                /\ uploads'[u] = uploads[u]
                /\ files'[u] = files[u]
          /\ ( /\ worker.pc = "ffprobe" /\ worker.id = u
               /\ worker'.pc = "get"
               /\ hist'[u].raised = {"faststart"} )
             => /\ uploads'[u].status = "completed"
                /\ uploads'[u].completed_at # Null
                /\ uploads'[u].error = "none"
                /\ hist'[u].returned = "True"]_vars

\* an upload whose remux failed was probed and is completed
C24_Witness ==
    \E u \in Ids :
        /\ hist[u].raised = {"faststart"}
        /\ hist[u].processed
        /\ uploads[u] # NoRecord
        /\ uploads[u].status = "completed"
        /\ uploads[u].ffprobe
        /\ worker.pc = "get"

\* the edges of the status machine: (from, to)
StatusEdges ==
    {<<"initiated", "in_progress">>,
     <<"initiated", "postprocessing">>, <<"in_progress", "postprocessing">>,
     <<"initiated", "completed">>, <<"in_progress", "completed">>,
     <<"postprocessing", "completed">>, <<"postprocessing", "failed">>}

\* C25: the status of a record changes only along the edges of the status
\* machine, and a record that is completed or failed keeps its status.
C25_StatusPairs ==
    [][\A u \in Ids :
          ( /\ uploads[u] # NoRecord /\ uploads'[u] # NoRecord
            /\ uploads'[u].status # uploads[u].status )
          => <<uploads[u].status, uploads'[u].status>> \in StatusEdges]_vars

\* C26: completed_at is set exactly once, when the status becomes completed: a
\* record has a completed_at if and only if it is completed, and a completed_at
\* that was set is never given another value.
C26_CompletedAtOnce ==
    [][\A u \in Ids :
          /\ uploads'[u] # NoRecord =>
                (uploads'[u].completed_at # Null <=> uploads'[u].status = "completed")
          /\ ( /\ uploads[u] # NoRecord /\ uploads'[u] # NoRecord
               /\ uploads[u].completed_at # Null )
             => uploads'[u].completed_at = uploads[u].completed_at]_vars

\* C27: the stored content type is replaced by the sniffed one exactly once, in
\* the chunk-append call that brings the offset to the declared length: no
\* other step changes it, so until then the record holds the declared type, and
\* after that call it holds the type sniffed from the file, whatever was
\* declared.
C27_TypeSniffedOnce ==
    [][\A u \in Ids :
          (uploads[u] # NoRecord /\ uploads'[u] # NoRecord) =>
             /\ uploads'[u].mimetype # uploads[u].mimetype =>
                   /\ resp'.op = "patch" /\ resp'.id = u /\ resp'.code = HTTP_204
                   /\ uploads[u].upload_offset < uploads[u].upload_length
                   /\ uploads'[u].upload_offset = uploads[u].upload_length
             /\ ( /\ uploads[u].upload_length # Null
                  /\ uploads[u].upload_offset < uploads[u].upload_length
                  /\ uploads'[u].upload_offset = uploads[u].upload_length )
                => uploads'[u].mimetype = detect_mimetype(files'[u])]_vars

\* an upload declared as text or audio was finished with the bytes of a video:
\* its record says video/mp4
C27_Witness ==
    \E u \in Ids :
        /\ uploads[u] # NoRecord
        /\ uploads[u].upload_offset = uploads[u].upload_length
        /\ uploads[u].mimetype = VideoMp4
        /\ resp.op = "patch" /\ resp.id = u /\ resp.code = HTTP_204
        /\ hist[u].parts > 1

\* what is wrong with an initiate request, stated on the token and the payload:
\* the token is expired, disabled or has no slot left; the declared size is
\* above the token's limit; a type is declared that no pattern of the token's
\* allow-list matches
TokenUnusable == token.expired \/ token.disabled \/ token.uploads_used >= token.max_uploads

TooLarge(size_bytes) == size_bytes # Null /\ size_bytes > token.max_size_bytes

TypeUnmatched(filetype) ==
    /\ filetype # NoType
    /\ Len(token.allowed_mime) > 0
    /\ \A i \in 1..Len(token.allowed_mime) :
          /\ token.allowed_mime[i] # filetype
          /\ ~(token.allowed_mime[i][2] = "*" /\ token.allowed_mime[i][1] = filetype[1])

\* C28: initiate_upload answers 403 for a token that is expired, disabled or
\* out of slots, 413 for a declared size above the token's limit and 415 for a
\* declared type the allow-list does not match; a rejected request creates no
\* record and takes no slot, an accepted one creates a record with status
\* initiated and offset 0 (and takes one slot).
C28_InitiateAdmission ==
    [][\A s \in {Null} \cup 1..(MaxLen + 1), t \in {NoType, TextPlain, AudioMpeg, VideoMp4} :
          (resp'.op = "initiate" /\ initiate_upload(s, t)) =>
             /\ resp'.code = (IF TokenUnusable THEN HTTP_403
                              ELSE IF TooLarge(s) THEN HTTP_413
                              ELSE IF TypeUnmatched(t) THEN HTTP_415
                              ELSE HTTP_201)
             /\ (TokenUnusable \/ TooLarge(s) \/ TypeUnmatched(t)) =>
                   /\ resp'.code \in {HTTP_403, HTTP_413, HTTP_415}
                   /\ uploads' = uploads
                   /\ token' = token
                   /\ next_id' = next_id
             /\ ~(TokenUnusable \/ TooLarge(s) \/ TypeUnmatched(t)) =>
                   /\ resp'.code = HTTP_201 /\ resp'.id = next_id'
                   /\ uploads[resp'.id] = NoRecord
                   /\ uploads'[resp'.id].status = "initiated"
                   /\ uploads'[resp'.id].upload_offset = 0
                   /\ uploads'[resp'.id].upload_length = s
                   /\ uploads'[resp'.id].mimetype = t
                   /\ token'.uploads_used = token.uploads_used + 1
                   /\ \A v \in PublicIds \ {resp'.id} : uploads'[v] = uploads[v]]_vars

\* a request was accepted, and a later one for a type the allow-list does not
\* match was answered 415 while a slot was free: one record, one slot taken
C28_Witness ==
    /\ resp.op = "initiate" /\ resp.code = HTTP_415
    /\ ~TokenUnusable
    /\ token.uploads_used = 1
    /\ Cardinality({u \in PublicIds : uploads[u] # NoRecord}) = 1
    /\ \E u \in PublicIds : uploads[u] # NoRecord /\ uploads[u].status = "initiated"
                            /\ uploads[u].upload_offset = 0 /\ uploads[u].mimetype = VideoMp4

\* C29: a token that was disabled (and has not expired) can still be viewed:
\* get_token answers 200 for its upload token and for its download token,
\* while initiate_upload with it is answered 403.
C29_DisabledTokenViewable ==
    [][(token.disabled /\ ~token.expired) =>
          /\ \A by_download_token \in BOOLEAN :
                get_token(by_download_token) => resp'.code = HTTP_200
          /\ \A s \in {Null} \cup 1..(MaxLen + 1),
                t \in {NoType, TextPlain, AudioMpeg, VideoMp4} :
                (resp'.op = "initiate" /\ initiate_upload(s, t)) => resp'.code = HTTP_403]_vars

\* C30: a chunk-append call that is refused because it would go beyond the
\* declared length changes nothing: the record (offset, status) is as before
\* the call and the file has the size it had before the call.
C30_OvershootChangesNothing ==
    [][\A u \in Ids, body \in 1..MaxBody, n \in 1..MaxBody, b \in Bytes :
          (Appends(u, body, n, b) /\ resp'.code = HTTP_413) =>
             /\ uploads'[u] = uploads[u]
             /\ files'[u] = files[u]]_vars

\* C31: chunk-append makes its precondition checks in a fixed order and
\* answers with the first that fails: Content-Type (415), Content-Length above
\* max_chunk_bytes (413), unknown id (404), unknown declared length (409),
\* claimed offset other than the recorded one (409); between the lookup and the
\* length the token is checked (403, see C15).  A call refused by any of them
\* leaves every record and every file as it was.
C31_PrecheckOrder ==
    [][(resp'.op = "patch" /\ worker' = worker /\ token' = token /\ next_id' = next_id) =>
          \A u \in Ids \cap {resp'.id}, o \in 0..MaxLen, ct \in BOOLEAN,
             k \in 0..MaxBody, cl \in {Null} \cup 0..MaxBody :
             LET first == IF ~ct THEN HTTP_415
                          ELSE IF cl # Null /\ cl > max_chunk_bytes THEN HTTP_413
                          ELSE IF uploads[u] = NoRecord THEN HTTP_404
                          ELSE IF token.disabled \/ token.expired THEN HTTP_403
                          ELSE IF uploads[u].upload_length = Null THEN HTTP_409
                          ELSE IF uploads[u].upload_offset # o THEN HTTP_409
                          ELSE 0
             IN  (first # 0 /\ cl \in {Null, k} /\ tus_patch(u, o, ct, cl, k))
                 => /\ resp'.code = first
                    /\ uploads' = uploads
                    /\ files' = files
                    /\ queue' = queue]_vars

\* a request with the wrong Content-Type and too large a Content-Length was
\* answered 415 although its upload is in progress and its claimed offset is
\* not the recorded one
C31_Witness ==
    /\ resp.op = "patch" /\ resp.code = HTTP_415
    /\ uploads[resp.id] # NoRecord
    /\ uploads[resp.id].status = "in_progress"
    /\ hist[resp.id].sent = Null
    /\ files[resp.id].size = uploads[resp.id].upload_offset

C33_RemuxThroughTemp ==
    [][ /\ (worker.task = "running" /\ worker.pc = "ffmpeg" /\ worker'.pc = "ffprobe") =>
            \A ok \in BOOLEAN, size \in 0..MaxLen :
                worker_ffmpeg(ok, size) =>
                    /\ worker'.tmp = NoFile
                    /\ IF ok /\ size > 0
                       THEN files'[worker.id] = [size |-> size, head |-> "V"]
                       ELSE /\ files'[worker.id] = files[worker.id]
                            /\ "faststart" \in hist'[worker.id].raised
        /\ (worker'.tmp # NoFile) => (worker'.pc = "ffmpeg")
        /\ (worker.pc = "get" /\ worker'.id # NoId /\ worker'.rec.mimetype # VideoMp4) =>
              /\ worker'.pc = "ffprobe" /\ worker'.tmp = NoFile
              /\ files' = files
      ]_vars

C33_Witness ==
    /\ worker.task = "running" /\ worker.pc = "ffprobe" /\ worker.tmp = NoFile
    /\ "faststart" \in hist[worker.id].raised
    /\ exists(files[worker.id]) /\ files[worker.id].head # "V"

\* C34: the worker changes a record only along postprocessing -> completed or
\* postprocessing -> failed: a step of the worker that changes the status,
\* completed_at or metadata of a stored record finds that record in status
\* postprocessing and leaves it completed or failed.
C34_WorkerEdgeOnly ==
    [][\A u \in Ids :
          ( /\ uploads[u] # NoRecord /\ uploads'[u] # uploads[u]
            /\ worker.task = "running"
            /\ \/ worker.pc = "get" /\ queue # <<>> /\ Head(queue) = u
                  /\ \E needs \in BOOLEAN : worker_get(needs)
               \/ worker.pc = "ffprobe" /\ worker.id = u
                  /\ \E found \in BOOLEAN : worker_ffprobe(found) )
          => /\ uploads[u].status = "postprocessing"
             /\ uploads'[u].status \in {"completed", "failed"}
      ]_vars

\* C35: for any sequence of chunk-append calls on one upload made one after
\* another, rejected calls included, the call whose chunk brings the upload
\* to postprocessing or completed leaves a file of exactly upload_length bytes.
C35_FinalChunkFileLength ==
    [][\A u \in Ids :
          ( /\ resp'.op = "patch" /\ resp'.id = u
            /\ uploads[u] # NoRecord
            /\ uploads[u].status \in {"initiated", "in_progress"}
            /\ uploads'[u].status \in {"postprocessing", "completed"} )
          => /\ exists(files'[u])
             /\ files'[u].size = uploads'[u].upload_length
      ]_vars

\* C36: in every reachable state a record in status completed has
\* upload_offset equal to upload_length, whichever of chunk append,
\* mark_complete and the worker brought it there.
C36_CompletedIsFull ==
    \A u \in Ids :
        (uploads[u] # NoRecord /\ uploads[u].status = "completed")
        => uploads[u].upload_offset = uploads[u].upload_length

\* C37: once upload_offset equals upload_length (status postprocessing,
\* completed or failed) no chunk-append call writes a byte to the upload's
\* file, whatever offset it claims and whatever body it carries.
C37_FullUploadNotWritten ==
    [][\A u \in Ids \cap {resp'.id} :
          ( /\ resp'.op = "patch" /\ worker' = worker /\ token' = token
            /\ uploads[u] # NoRecord
            /\ uploads[u].upload_length # Null
            /\ uploads[u].upload_offset = uploads[u].upload_length
            /\ uploads[u].status \in {"postprocessing", "completed", "failed"}
            /\ \E o \in 0..MaxLen, k \in 0..MaxBody : tus_patch(u, o, TRUE, Null, k) )
          => files'[u] = files[u]
      ]_vars

\* neither the record of u nor a file at its storage_path exists
Gone(u) == uploads[u] = NoRecord /\ ~exists(files[u])

\* C38: a successful cancel of an upload in status postprocessing removes its
\* record and its file, and neither reappears afterwards, whether the id was
\* waiting in the queue or the worker was processing it (a faststart rewrite
\* in flight included); the worker then goes on to the next id.
C38_CancelledStaysGone ==
    /\ [][\A u \in Ids :
             /\ ( /\ uploads[u] # NoRecord /\ uploads[u].status = "postprocessing"
                  /\ resp'.op = "cancel" /\ resp'.id = u /\ resp'.code = HTTP_200
                  /\ cancel_upload(u) )
                => (uploads'[u] = NoRecord /\ ~exists(files'[u]))
             /\ (hist[u].cancelled /\ Gone(u))
                => (uploads'[u] = NoRecord /\ ~exists(files'[u]))]_vars
    /\ \A u \in Ids :
          (hist[u].cancelled /\ worker.id = u)
             ~> (worker.id # u /\ worker.task = "running" /\ worker.pc = "get")

\* C39: an upload that was initiated and has not received its final chunk
\* (status initiated or in_progress) is removed, record and file, by the first
\* cleanup sweep that finds it older than incomplete_ttl_hours, whether or not
\* a chunk was ever written to it.
C39_StaleUploadSwept ==
    [][\A old \in SUBSET PublicIds :
          (resp'.op = "cleanup" /\ remove_stale_uploads(old)) =>
             \A u \in old :
                (uploads[u] # NoRecord /\ uploads[u].status \in {"initiated", "in_progress"})
                => (uploads'[u] = NoRecord /\ ~exists(files'[u]))
      ]_vars

\* C40: the ids waiting in the queue when stop_worker is called are not lost:
\* stopping and starting the worker leaves the queue as it is, an id that
\* waited is in the queue until the worker takes it, the worker takes it from
\* the head after every id enqueued before it, and once the worker has been
\* started again and is left running every such id is processed.
C40_WaitingIdsKept ==
    /\ [][ /\ (worker'.task # worker.task) => (queue' = queue)
           /\ \A u \in PublicIds :
                 /\ hist'[u].waiting => (InQueue(u)' \/ hist'[u].start > 0)
                 /\ (hist[u].waiting /\ InQueue(u) /\ ~InQueue(u)') =>
                       /\ worker.task = "running" /\ Head(queue) = u
                       /\ hist'[u].start > 0
                       /\ \A v \in PublicIds :
                             (hist[v].enq > 0 /\ hist[v].enq < hist[u].enq)
                             => (hist[v].start > 0 /\ hist[v].start < hist'[u].start)
         ]_vars
    /\ \A u \in PublicIds :
          (<>[](worker.task = "running"))
             => ((hist[u].waiting /\ InQueue(u)) ~> (hist[u].start > 0))

\* both uploads waited in the queue when the worker was stopped; the worker
\* started afterwards took them in the order in which they had been enqueued
C40_Witness ==
    /\ hist[1].waiting /\ hist[2].waiting
    /\ hist[2].enq = 1 /\ hist[1].enq = 2
    /\ hist[2].start = 1 /\ hist[1].start = 2
    /\ worker.task = "running"
====
